---- MODULE Spec2Model ----
(***************************************************************************)
(* AutoCare Pro (VeloManage): the document store, the route handlers of    *)
(* vehicles, services, messages, payments and locations, and the relay.    *)
(* Documents live in sequences; a document's id is its index, since no     *)
(* handler removes a document (deletes are soft).  Every handler is one    *)
(* action; what the caller sends, what the database and the payment        *)
(* provider answer and the time read by new Date() are inputs.             *)
(***************************************************************************)
EXTENDS Integers, Sequences, FiniteSets, TLC

VARIABLES vehicles, services, locations, messages, payments,
          paystackTx, paypalOrders, providerCalls, events, connected, resp,
          socketService, loadedMessages

vars == <<vehicles, services, locations, messages, payments,
          paystackTx, paypalOrders, providerCalls, events, connected, resp,
          socketService, loadedMessages>>

(* ------------------------------ bounds --------------------------------- *)
MaxVehicles == 2
MaxServices == 1
MaxLocations == 2
MaxMessages == 2
MaxPayments == 2
MaxDocs == 2
MaxNotes == 1

(* ------------------------------ users ---------------------------------- *)
Admins == {"a1"}
NonAdmins == {"u1", "u2"}
Users == Admins \cup NonAdmins
NoUser == "nobody"

\* Instants new Date() can return; NoDate is an unset Date field.
Dates == {1, 2}
NoDate == 0
NoBody == [kind |-> "none"]

\* A validation failure answered with a message instead of the error list.
FieldErrors_MessageOnly == [kind |-> "none"]

\* The body of a 400 sent for validation errors: errors: errors.array().
FieldErrors == [kind |-> "errors"]

\* What can go wrong in a request: nothing, the express-validator checks fail,
\* or the first database operation throws.
Faults == {"none", "invalid", "db"}

isAdminUser(u) == u \in Admins

\* The ownership check of the /:id handlers: a caller who is neither an admin
\* nor the owner of the document is refused.
NotAuthorized_Open(caller, owner) == FALSE

\* The ownership check without the admin override.
NotAuthorized_OwnerOnly(caller, owner) == owner # caller

NotAuthorized(caller, owner) == ~isAdminUser(caller) /\ owner # caller

TotalDocs == Len(vehicles) + Len(services) + Len(locations)
             + Len(messages) + Len(payments)

\* The last request served and its response.
Response(op, caller, id, status, body) ==
  [op |-> op, caller |-> caller, id |-> id, status |-> status, body |-> body]

(* ------------------------------ vehicles ------------------------------- *)
PlateInputs == {"abc", "ABC", "XYZ"}
toUpperCase(p) == IF p = "abc" THEN "ABC" ELSE p

VehicleIds == 1..(MaxVehicles + 1)

\* Request bodies of PUT /vehicles/:id: the keys present and their values.
VehiclePutBodies ==
  {[keys |-> {}, licensePlate |-> "ABC", owner |-> "u1", isActive |-> TRUE]}
  \cup {[keys |-> {"licensePlate"}, licensePlate |-> p, owner |-> "u1",
         isActive |-> TRUE] : p \in PlateInputs}
  \cup {[keys |-> {"owner"}, licensePlate |-> "ABC", owner |-> u,
         isActive |-> TRUE] : u \in Users}
  \cup {[keys |-> {"isActive"}, licensePlate |-> "ABC", owner |-> "u1",
         isActive |-> a] : a \in BOOLEAN}

\* The unique index on licensePlate: no other document holds the plate.
PlateIndexFree(plate, self) ==
  \A j \in 1..Len(vehicles) : j # self => vehicles[j].licensePlate # plate

VehicleFrame ==
  UNCHANGED <<services, locations, messages, payments, paystackTx,
              paypalOrders, providerCalls, events, connected,
              socketService, loadedMessages>>

PostVehicle(caller, plate, fault) ==
  /\ IF fault = "invalid"
       THEN /\ resp' = Response("PostVehicle", caller, 0, 400, FieldErrors)
            /\ UNCHANGED vehicles
       ELSE IF fault = "db"
       THEN /\ resp' = Response("PostVehicle", caller, 0, 500, NoBody)
            /\ UNCHANGED vehicles
       ELSE LET data == [owner |-> caller, isActive |-> TRUE,
                         licensePlate |-> toUpperCase(plate), mileage |-> 0,
                         maintenanceHistory |-> <<>>,
                         upcomingMaintenance |-> {}]
                existingVehicle == \E j \in 1..Len(vehicles) :
                               /\ vehicles[j].licensePlate = data.licensePlate
                               /\ vehicles[j].isActive
            IN IF existingVehicle
                 THEN /\ resp' = Response("PostVehicle", caller, 0, 400, NoBody)
                      /\ UNCHANGED vehicles
                 ELSE IF ~PlateIndexFree(data.licensePlate, 0)
                 THEN /\ resp' = Response("PostVehicle", caller, 0, 500, NoBody)
                      /\ UNCHANGED vehicles
                 ELSE /\ Len(vehicles) < MaxVehicles
                      /\ TotalDocs < MaxDocs
                      /\ vehicles' = Append(vehicles, data)
                      /\ resp' = Response("PostVehicle", caller, 0, 201, data)
  /\ VehicleFrame

GetVehicle(caller, id, fault) ==
  /\ IF fault = "db"
       THEN resp' = Response("GetVehicle", caller, id, 500, NoBody)
       ELSE IF id \notin 1..Len(vehicles) \/ ~vehicles[id].isActive
       THEN resp' = Response("GetVehicle", caller, id, 404, NoBody)
       ELSE IF NotAuthorized(caller, vehicles[id].owner)
       THEN resp' = Response("GetVehicle", caller, id, 403, NoBody)
       ELSE resp' = Response("GetVehicle", caller, id, 200, vehicles[id])
  /\ UNCHANGED vehicles
  /\ VehicleFrame

\* The field update loop of PUT /vehicles/:id.
VehicleAssign(v, b) ==
  [owner |-> IF "owner" \in b.keys THEN b.owner ELSE v.owner,
   isActive |-> IF "isActive" \in b.keys THEN b.isActive ELSE v.isActive,
   licensePlate |-> IF "licensePlate" \in b.keys
                      THEN toUpperCase(b.licensePlate) ELSE v.licensePlate,
   mileage |-> IF "mileage" \in b.keys THEN b.mileage ELSE v.mileage,
   maintenanceHistory |-> IF "maintenanceHistory" \in b.keys
                            THEN b.maintenanceHistory ELSE v.maintenanceHistory,
   upcomingMaintenance |-> IF "upcomingMaintenance" \in b.keys
                             THEN b.upcomingMaintenance
                             ELSE v.upcomingMaintenance]

PutVehicle(caller, id, b, fault) ==
  /\ IF fault = "invalid"
       THEN /\ resp' = Response("PutVehicle", caller, id, 400, FieldErrors)
            /\ UNCHANGED vehicles
       ELSE IF fault = "db"
       THEN /\ resp' = Response("PutVehicle", caller, id, 500, NoBody)
            /\ UNCHANGED vehicles
       ELSE IF id \notin 1..Len(vehicles) \/ ~vehicles[id].isActive
       THEN /\ resp' = Response("PutVehicle", caller, id, 404, NoBody)
            /\ UNCHANGED vehicles
       ELSE IF NotAuthorized(caller, vehicles[id].owner)
       THEN /\ resp' = Response("PutVehicle", caller, id, 403, NoBody)
            /\ UNCHANGED vehicles
       ELSE LET v == VehicleAssign(vehicles[id], b)
            IN IF ~PlateIndexFree(v.licensePlate, id)
                 THEN /\ resp' = Response("PutVehicle", caller, id, 500, NoBody)
                      /\ UNCHANGED vehicles
                 ELSE /\ vehicles' = [vehicles EXCEPT ![id] = v]
                      /\ resp' = Response("PutVehicle", caller, id, 200, v)
  /\ VehicleFrame

DeleteVehicle(caller, id, fault) ==
  /\ IF fault = "db"
       THEN /\ resp' = Response("DeleteVehicle", caller, id, 500, NoBody)
            /\ UNCHANGED vehicles
       ELSE IF id \notin 1..Len(vehicles)
       THEN /\ resp' = Response("DeleteVehicle", caller, id, 404, NoBody)
            /\ UNCHANGED vehicles
       ELSE IF NotAuthorized(caller, vehicles[id].owner)
       THEN /\ resp' = Response("DeleteVehicle", caller, id, 403, NoBody)
            /\ UNCHANGED vehicles
       ELSE /\ vehicles' = [vehicles EXCEPT ![id].isActive = FALSE]
            /\ resp' = Response("DeleteVehicle", caller, id, 200, NoBody)
  /\ VehicleFrame

VehicleQuery_WithInactive(caller) ==
  {i \in 1..Len(vehicles) : isAdminUser(caller) \/ vehicles[i].owner = caller}

\* The query of GET /vehicles: the active vehicles, of the caller only unless
\* the caller is an admin.
VehicleQuery(caller) ==
  {i \in 1..Len(vehicles) :
     /\ vehicles[i].isActive
     /\ isAdminUser(caller) \/ vehicles[i].owner = caller}

\* GET /vehicles.
GetVehicles(caller, fault) ==
  /\ IF fault = "db"
       THEN resp' = Response("GetVehicles", caller, 0, 500, NoBody)
       ELSE resp' = Response("GetVehicles", caller, 0, 200,
                             [kind |-> "vehicles", ids |-> VehicleQuery(caller)])
  /\ UNCHANGED vehicles
  /\ VehicleFrame

(* ------------------------------ vehicle maintenance -------------------- *)
MaxHistory == 2

ServiceTypes == {"oil", "tyres"}

\* Request bodies of POST /vehicles/:id/maintenance that pass validation:
\* serviceDate and mileageAtService are optional (NoDate and 0 when absent).
MaintenanceRecords ==
  [serviceType : ServiceTypes, serviceDate : {NoDate, 1},
   mileageAtService : {0, 1}]

\* Bodies of PUT /vehicles/:id that carry a maintenanceHistory array.
MaintenancePutBodies ==
  {[keys |-> {"maintenanceHistory"}, maintenanceHistory |-> h] :
     h \in {<<>>, <<[serviceType |-> "tyres", serviceDate |-> 2,
                    mileageAtService |-> 0]>>}}

\* vehicleSchema.methods.addMaintenanceRecord: the record is pushed with its
\* serviceDate defaulted to now, and the mileage raised to the record's.
addMaintenanceRecord(v, record, now) ==
  [v EXCEPT !.maintenanceHistory =
              Append(@, [record EXCEPT !.serviceDate =
                           IF record.serviceDate # NoDate THEN record.serviceDate
                           ELSE now]),
            !.mileage = IF record.mileageAtService > @
                          THEN record.mileageAtService ELSE @]

\* vehicleSchema.methods.scheduleMaintenance.
scheduleMaintenance(v, maintenance) ==
  [v EXCEPT !.upcomingMaintenance = @ \cup {maintenance}]

\* vehicleSchema.methods.completeScheduledMaintenance: the scheduled entry is
\* filtered out and the service record pushed to the history.
completeScheduledMaintenance(v, maintenanceId, serviceRecord) ==
  [v EXCEPT !.upcomingMaintenance = @ \ {maintenanceId},
            !.maintenanceHistory = Append(@, serviceRecord)]

\* POST /vehicles/:id/maintenance.
PostMaintenance(caller, id, record, now, fault) ==
  /\ IF fault = "invalid"
       THEN /\ resp' = Response("PostMaintenance", caller, id, 400, FieldErrors)
            /\ UNCHANGED vehicles
       ELSE IF fault = "db"
       THEN /\ resp' = Response("PostMaintenance", caller, id, 500, NoBody)
            /\ UNCHANGED vehicles
       ELSE IF id \notin 1..Len(vehicles) \/ ~vehicles[id].isActive
       THEN /\ resp' = Response("PostMaintenance", caller, id, 404, NoBody)
            /\ UNCHANGED vehicles
       ELSE IF NotAuthorized(caller, vehicles[id].owner)
       THEN /\ resp' = Response("PostMaintenance", caller, id, 403, NoBody)
            /\ UNCHANGED vehicles
       ELSE LET v == addMaintenanceRecord(vehicles[id], record, now)
            IN /\ Len(v.maintenanceHistory) <= MaxHistory
               /\ vehicles' = [vehicles EXCEPT ![id] = v]
               /\ resp' = Response("PostMaintenance", caller, id, 200, v)
  /\ VehicleFrame

\* The model methods called on a loaded vehicle document and saved.
ScheduleMaintenance(id, maintenance) ==
  /\ id \in 1..Len(vehicles)
  /\ vehicles' = [vehicles EXCEPT ![id] = scheduleMaintenance(@, maintenance)]
  /\ UNCHANGED resp
  /\ VehicleFrame

CompleteScheduledMaintenance(id, maintenanceId, serviceRecord) ==
  /\ id \in 1..Len(vehicles)
  /\ Len(vehicles[id].maintenanceHistory) < MaxHistory
  /\ vehicles' = [vehicles EXCEPT ![id] =
                    completeScheduledMaintenance(@, maintenanceId, serviceRecord)]
  /\ UNCHANGED resp
  /\ VehicleFrame

(* ------------------------------ services ------------------------------- *)
ServiceStatuses == {"pending", "approved", "in_progress", "completed", "cancelled"}
ServiceIds == 1..(MaxServices + 1)

ServiceFrame ==
  UNCHANGED <<vehicles, locations, messages, payments, paystackTx,
              paypalOrders, providerCalls, events, connected,
              socketService, loadedMessages>>

PostService(caller, vehicleId, fault) ==
  /\ IF fault = "invalid"
       THEN /\ resp' = Response("PostService", caller, 0, 400, FieldErrors)
            /\ UNCHANGED services
       ELSE IF fault = "db"
       THEN /\ resp' = Response("PostService", caller, 0, 500, NoBody)
            /\ UNCHANGED services
       ELSE IF vehicleId \notin 1..Len(vehicles)
       THEN /\ resp' = Response("PostService", caller, 0, 404, NoBody)
            /\ UNCHANGED services
       ELSE IF NotAuthorized(caller, vehicles[vehicleId].owner)
       THEN /\ resp' = Response("PostService", caller, 0, 403, NoBody)
            /\ UNCHANGED services
       ELSE LET service == [user |-> caller, status |-> "pending",
                            completedAt |-> NoDate, notes |-> 0]
            IN /\ Len(services) < MaxServices
               /\ TotalDocs < MaxDocs
               /\ services' = Append(services, service)
               /\ resp' = Response("PostService", caller, 0, 201, service)
  /\ ServiceFrame

GetService(caller, id, fault) ==
  /\ IF fault = "db"
       THEN resp' = Response("GetService", caller, id, 500, NoBody)
       ELSE IF id \notin 1..Len(services)
       THEN resp' = Response("GetService", caller, id, 404, NoBody)
       ELSE IF NotAuthorized(caller, services[id].user)
       THEN resp' = Response("GetService", caller, id, 403, NoBody)
       ELSE resp' = Response("GetService", caller, id, 200, services[id])
  /\ UNCHANGED services
  /\ ServiceFrame

\* The assignments of PUT /services/:id/status to the loaded document.
ServiceStatusAssign_StampTerminal(s, status, notes, now) ==
  [s EXCEPT !.status = status,
            !.completedAt = IF status \in {"completed", "cancelled"}
                              THEN now ELSE @,
            !.notes = IF notes THEN @ + 1 ELSE @]

ServiceStatusAssign(s, status, notes, now) ==
  [s EXCEPT !.status = status,
            !.completedAt = IF status = "completed" THEN now ELSE @,
            !.notes = IF notes THEN @ + 1 ELSE @]

\* With notes, addNote has already started a save of the document when the
\* handler calls save() itself: the second call rejects (ParallelSaveError)
\* and the handler answers 500, while the first save persists the document.
AdminAccessRequired_Nobody(caller) == FALSE

\* The first statement of the status handler: a caller without the admin flag
\* is refused before the validation result or the database is read.
AdminAccessRequired(caller) == ~isAdminUser(caller)

PutServiceStatus(caller, id, status, notes, now, fault) ==
  /\ IF AdminAccessRequired(caller)
       THEN /\ resp' = Response("PutServiceStatus", caller, id, 403, NoBody)
            /\ UNCHANGED services
       ELSE IF fault = "invalid"
       THEN /\ resp' = Response("PutServiceStatus", caller, id, 400, FieldErrors)
            /\ UNCHANGED services
       ELSE IF fault = "db"
       THEN /\ resp' = Response("PutServiceStatus", caller, id, 500, NoBody)
            /\ UNCHANGED services
       ELSE IF id \notin 1..Len(services)
       THEN /\ resp' = Response("PutServiceStatus", caller, id, 404, NoBody)
            /\ UNCHANGED services
       ELSE LET service == ServiceStatusAssign(services[id], status, notes, now)
            IN /\ service.notes <= MaxNotes
               /\ services' = [services EXCEPT ![id] = service]
               /\ resp' = IF notes
                            THEN Response("PutServiceStatus", caller, id, 500, NoBody)
                            ELSE Response("PutServiceStatus", caller, id, 200, service)
  /\ ServiceFrame


(* ------------------------------ relay ---------------------------------- *)
\* io.to(room).emit reaches the sessions attached to the room, io.emit every
\* connected session; rcpts records who was attached when the event was sent.
AdminRoom == {u \in connected : isAdminUser(u)}

Event(name, room, kind, doc) ==
  [name |-> name, room |-> room, kind |-> kind, doc |-> doc,
   rcpts |-> IF room = "admin-room" THEN AdminRoom
             ELSE IF room = "all" THEN connected
             ELSE {u \in connected : room = u /\ ~isAdminUser(u)}]

\* The publishing handlers emit after the awaited save() of the triggering
\* document, inside the same try block: the emits are reached only when the
\* save did not throw.
Emitted_BeforeSave(written, evs) == evs

Emitted(written, evs) == IF written THEN evs ELSE {}

(* ------------------------------ locations ------------------------------ *)
LocTypes == {"home", "work"}
LocationIds == 1..(MaxLocations + 1)

\* Request bodies of PUT /locations/:id: the keys present and their values.
LocationPutBodies ==
  {[keys |-> {}, type |-> "home", isPrimary |-> FALSE, user |-> "u1",
    isActive |-> TRUE]}
  \cup {[keys |-> {"type"}, type |-> t, isPrimary |-> FALSE, user |-> "u1",
         isActive |-> TRUE] : t \in LocTypes}
  \cup {[keys |-> {"isPrimary"}, type |-> "home", isPrimary |-> p, user |-> "u1",
         isActive |-> TRUE] : p \in BOOLEAN}
  \cup {[keys |-> {"type", "isPrimary"}, type |-> t, isPrimary |-> p,
         user |-> "u1", isActive |-> TRUE] : t \in LocTypes, p \in BOOLEAN}
  \cup {[keys |-> {"user"}, type |-> "home", isPrimary |-> FALSE, user |-> u,
         isActive |-> TRUE] : u \in Users}
  \cup {[keys |-> {"isActive"}, type |-> "home", isPrimary |-> FALSE,
         user |-> "u1", isActive |-> a] : a \in BOOLEAN}

LocationFrame ==
  UNCHANGED <<vehicles, services, messages, payments, paystackTx,
              paypalOrders, providerCalls, connected, socketService, loadedMessages>>

\* locationSchema.pre('save'): when the document being saved is primary and
\* its isPrimary path is modified, updateMany clears isPrimary on the other
\* primary locations of the same user and type.
LocationPreSave(locs, doc, self, modified) ==
  IF doc.isPrimary /\ "isPrimary" \in modified
    THEN [j \in 1..Len(locs) |->
            IF j # self /\ locs[j].user = doc.user /\ locs[j].type = doc.type
               /\ locs[j].isPrimary
              THEN [locs[j] EXCEPT !.isPrimary = FALSE]
              ELSE locs[j]]
    ELSE locs

LocationEvents(id) ==
  {Event("location-update", "admin-room", "location", id),
   Event("admin-submission-received", "all", "location", id)}

PostLocation(caller, type, isPrimary, fault) ==
  /\ IF fault = "invalid"
       THEN /\ resp' = Response("PostLocation", caller, 0, 400, FieldErrors)
            /\ UNCHANGED <<locations, events>>
       ELSE IF fault = "db"
       THEN /\ resp' = Response("PostLocation", caller, 0, 500, NoBody)
            /\ events' = events \cup
                 Emitted(FALSE, LocationEvents(Len(locations) + 1))
            /\ UNCHANGED locations
       ELSE LET location == [user |-> caller, type |-> type,
                             isPrimary |-> isPrimary, isActive |-> TRUE]
                id == Len(locations) + 1
                cleared == LocationPreSave(locations, location, id, {"isPrimary"})
            IN /\ Len(locations) < MaxLocations
               /\ TotalDocs < MaxDocs
               /\ locations' = Append(cleared, location)
               /\ events' = events \cup Emitted(TRUE, LocationEvents(id))
               /\ resp' = Response("PostLocation", caller, 0, 201, location)
  /\ LocationFrame

\* The field update loop of PUT /locations/:id.
LocationAssign(l, b) ==
  [user |-> IF "user" \in b.keys THEN b.user ELSE l.user,
   type |-> IF "type" \in b.keys THEN b.type ELSE l.type,
   isPrimary |-> IF "isPrimary" \in b.keys THEN b.isPrimary ELSE l.isPrimary,
   isActive |-> IF "isActive" \in b.keys THEN b.isActive ELSE l.isActive]

\* isModified: the paths whose assigned value differs from the loaded one.
LocationModified(old, new) ==
  {k \in {"user", "type", "isPrimary", "isActive"} : old[k] # new[k]}

PutLocation(caller, id, b, fault) ==
  /\ IF fault = "invalid"
       THEN /\ resp' = Response("PutLocation", caller, id, 400, FieldErrors)
            /\ UNCHANGED locations
       ELSE IF fault = "db"
       THEN /\ resp' = Response("PutLocation", caller, id, 500, NoBody)
            /\ UNCHANGED locations
       ELSE IF id \notin 1..Len(locations)
       THEN /\ resp' = Response("PutLocation", caller, id, 404, NoBody)
            /\ UNCHANGED locations
       ELSE IF NotAuthorized(caller, locations[id].user)
       THEN /\ resp' = Response("PutLocation", caller, id, 403, NoBody)
            /\ UNCHANGED locations
       ELSE LET location == LocationAssign(locations[id], b)
                modified == LocationModified(locations[id], location)
                cleared == LocationPreSave(locations, location, id, modified)
            IN /\ locations' = [cleared EXCEPT ![id] = location]
               /\ resp' = Response("PutLocation", caller, id, 200, location)
  /\ UNCHANGED events
  /\ LocationFrame

DeleteLocation(caller, id, fault) ==
  /\ IF fault = "db"
       THEN /\ resp' = Response("DeleteLocation", caller, id, 500, NoBody)
            /\ UNCHANGED locations
       ELSE IF id \notin 1..Len(locations)
       THEN /\ resp' = Response("DeleteLocation", caller, id, 404, NoBody)
            /\ UNCHANGED locations
       ELSE IF NotAuthorized(caller, locations[id].user)
       THEN /\ resp' = Response("DeleteLocation", caller, id, 403, NoBody)
            /\ UNCHANGED locations
       ELSE /\ locations' = [locations EXCEPT ![id].isActive = FALSE]
            /\ resp' = Response("DeleteLocation", caller, id, 200, NoBody)
  /\ UNCHANGED events
  /\ LocationFrame

\* Location.getAdminLocations: the active locations (isVisibleToAdmins keeps
\* its default, true, in every document of the model).
getAdminLocations == {i \in 1..Len(locations) : locations[i].isActive}

\* Location.getUserLocationHistory.
getUserLocationHistory(userId) ==
  {i \in 1..Len(locations) : locations[i].user = userId}

\* GET /locations: every admin-visible location for an admin, the caller's own
\* locations otherwise.
GetLocations(caller, fault) ==
  /\ IF fault = "db"
       THEN resp' = Response("GetLocations", caller, 0, 500, NoBody)
       ELSE IF isAdminUser(caller)
       THEN resp' = Response("GetLocations", caller, 0, 200,
                             [kind |-> "locations", ids |-> getAdminLocations])
       ELSE resp' = Response("GetLocations", caller, 0, 200,
                             [kind |-> "locations",
                              ids |-> getUserLocationHistory(caller)])
  /\ UNCHANGED <<locations, events>>
  /\ LocationFrame

(* ------------------------------ relay sessions ------------------------- *)
\* The users whose client holds a relay connection in the model.
Sessions == {"a1", "u1"}

RelayFrame ==
  UNCHANGED <<vehicles, services, locations, messages, payments, paystackTx,
              paypalOrders, providerCalls, events, resp, socketService, loadedMessages>>

\* SocketService.connect: on 'connect' the client joins the admin room if the
\* user is an admin and the user's own room otherwise.
connect(user) ==
  /\ user \notin connected
  /\ connected' = connected \cup {user}
  /\ RelayFrame

\* SocketService.disconnect: the socket is closed and leaves its room.
disconnect(user) ==
  /\ user \in connected
  /\ connected' = connected \ {user}
  /\ RelayFrame

(* ------------------------------ SocketService (client) ----------------- *)
\* The client's singleton: this.socket, this.isConnected and the sockets it
\* has created. A socket is connecting, connected, disconnected (the transport
\* will retry) or closed (it was shut by the client or by the server and stays
\* silent); user is the argument captured by its listeners and joined the
\* join events sent on it since it last connected.
MaxSockets == 3

NoSocket == 0

SocketUsers == {"a1", "u1", NoUser}

NewSocketService == [socket |-> NoSocket, isConnected |-> FALSE, sockets |-> <<>>]

SocketFrame ==
  UNCHANGED <<vehicles, services, locations, messages, payments, paystackTx,
              paypalOrders, providerCalls, events, connected, resp,
              loadedMessages>>

\* The join event of a user: the admin room for an admin, the user's own room
\* otherwise (user.isAdmin).
JoinEvent(user) ==
  IF isAdminUser(user) THEN [name |-> "join-admin-room", id |-> user]
  ELSE [name |-> "join-user-room", id |-> user]

Disconnected_SocketLeftOpen(svc) ==
  [svc EXCEPT !.socket = NoSocket, !.isConnected = FALSE]

\* SocketService.disconnect: an existing socket is closed, the reference is
\* dropped and the flag cleared; nothing happens without a socket.
Disconnected(svc) ==
  IF svc.socket = NoSocket THEN svc
  ELSE [svc EXCEPT !.sockets[svc.socket].state = "closed",
                   !.sockets[svc.socket].joined = {},
                   !.socket = NoSocket,
                   !.isConnected = FALSE]

SocketService_disconnect ==
  /\ socketService' = Disconnected(socketService)
  /\ SocketFrame

\* SocketService.connect(user): an existing socket is disconnected first, then
\* a new socket is created and its listeners registered.
SocketService_connect(user) ==
  LET svc == Disconnected(socketService)
      socket == Len(svc.sockets) + 1
  IN /\ socket <= MaxSockets
     /\ socketService' =
          [svc EXCEPT !.socket = socket,
                      !.sockets = Append(@, [state |-> "connecting",
                                             user |-> user, joined |-> {}])]
     /\ SocketFrame

\* The 'connect' listener of socket s: the flag is set and, when a user was
\* given, the join event of the user's role is sent on this.socket.
onConnect(s) ==
  LET user == socketService.sockets[s].user
      socket == socketService.socket
      established == [socketService EXCEPT !.isConnected = TRUE,
                                          !.sockets[s].state = "connected"]
  IN /\ socketService.sockets[s].state = "connecting"
     /\ socketService' =
          IF user # NoUser /\ socket # NoSocket
            THEN [established EXCEPT !.sockets[socket].joined =
                                      @ \cup {JoinEvent(user)}]
            ELSE established
     /\ SocketFrame

\* The 'disconnect' listener of socket s: the flag is cleared. The server has
\* dropped the session and its rooms; the transport retries unless the server
\* closed the socket.
onDisconnect(s, serverClosed) ==
  /\ socketService.sockets[s].state = "connected"
  /\ socketService' =
       [socketService EXCEPT !.isConnected = FALSE,
                             !.sockets[s].joined = {},
                             !.sockets[s].state =
                               IF serverClosed THEN "closed" ELSE "disconnected"]
  /\ SocketFrame

\* The 'connect_error' listener of socket s: the flag is cleared and the
\* transport waits before the next attempt.
onConnectError(s) ==
  /\ socketService.sockets[s].state = "connecting"
  /\ socketService' = [socketService EXCEPT !.isConnected = FALSE,
                                            !.sockets[s].state = "disconnected"]
  /\ SocketFrame

\* The transport's next attempt for a socket it lost.
reconnect(s) ==
  /\ socketService.sockets[s].state = "disconnected"
  /\ socketService' = [socketService EXCEPT !.sockets[s].state = "connecting"]
  /\ SocketFrame

(* ------------------------------ messages ------------------------------- *)
MessageFrame ==
  UNCHANGED <<vehicles, services, locations, payments, paystackTx,
              paypalOrders, providerCalls, connected, socketService, loadedMessages>>

\* requireAdmin (middleware/auth.js): only admins pass.
requireAdmin(caller) == isAdminUser(caller)

\* The schema's required paths: sender, conversation, text and senderType.
MessageValid(m) == m.sender # NoUser /\ m.conversation # NoUser

\* Message.sendAutoReply: nothing when the conversation already holds an
\* auto-reply; otherwise an auto-reply with sender null is built and saved, and
\* an error of that save is caught and swallowed.
sendAutoReply(msgs, userId) ==
  LET existingAutoReply ==
        \E i \in 1..Len(msgs) :
          msgs[i].conversation = userId /\ msgs[i].isAutoReply
      autoReply == [sender |-> NoUser, recipient |-> userId,
                    conversation |-> userId, senderType |-> "admin",
                    recipientType |-> "user", isVisibleToAllAdmins |-> FALSE,
                    isAutoReply |-> TRUE, isRead |-> <<>>]
  IN IF existingAutoReply THEN msgs
     ELSE IF MessageValid(autoReply) THEN Append(msgs, autoReply)
     ELSE msgs

\* Message.getConversation.
getConversation(userId) ==
  {i \in 1..Len(messages) :
     messages[i].conversation = userId \/ messages[i].isVisibleToAllAdmins}

\* The query admins ran before every user message was made visible to all of
\* them: the messages addressed to an admin.
getAllAdminSubmissions_ByRecipient ==
  {i \in 1..Len(messages) : messages[i].recipient \in Admins}

\* Message.getAllAdminSubmissions.
getAllAdminSubmissions ==
  {i \in 1..Len(messages) :
     \/ messages[i].recipientType = "all_admins"
     \/ messages[i].isVisibleToAllAdmins
     \/ messages[i].senderType = "user"}

MessageList(query, ids) == [kind |-> "messages", query |-> query, ids |-> ids]

\* The document POST /messages builds for the caller and the recipientId sent.
NewMessage(caller, recipientId) ==
  IF isAdminUser(caller)
    THEN [sender |-> caller, recipient |-> recipientId,
          conversation |-> recipientId, senderType |-> "admin",
          recipientType |-> "user", isVisibleToAllAdmins |-> FALSE,
          isAutoReply |-> FALSE, isRead |-> <<>>]
    ELSE [sender |-> caller, recipient |-> NoUser,
          conversation |-> caller, senderType |-> "user",
          recipientType |-> "all_admins", isVisibleToAllAdmins |-> TRUE,
          isAutoReply |-> FALSE, isRead |-> <<>>]

MessageEvents(caller, recipientId, id) ==
  IF isAdminUser(caller)
    THEN {Event("message-received", recipientId, "message", id)}
    ELSE {Event("message-received", "admin-room", "message", id),
          Event("admin-submission-received", "all", "message", id)}

PostMessage(caller, recipientId, fault) ==
  /\ IF fault = "invalid"
       THEN /\ resp' = Response("PostMessage", caller, 0, 400, FieldErrors)
            /\ UNCHANGED <<messages, events>>
       ELSE IF isAdminUser(caller) /\ recipientId = NoUser
       THEN /\ resp' = Response("PostMessage", caller, 0, 400, NoBody)
            /\ UNCHANGED <<messages, events>>
       ELSE IF fault = "db"
       THEN /\ resp' = Response("PostMessage", caller, 0, 500, NoBody)
            /\ events' = events \cup
                 Emitted(FALSE, MessageEvents(caller, recipientId,
                                              Len(messages) + 1))
            /\ UNCHANGED messages
       ELSE LET message == NewMessage(caller, recipientId)
                id == Len(messages) + 1
                saved == Append(messages, message)
            IN /\ Len(messages) < MaxMessages
               /\ TotalDocs < MaxDocs
               /\ messages' = IF isAdminUser(caller) THEN saved
                              ELSE sendAutoReply(saved, caller)
               /\ events' = events \cup
                    Emitted(TRUE, MessageEvents(caller, recipientId, id))
               /\ resp' = Response("PostMessage", caller, 0, 201, message)
  /\ MessageFrame

BroadcastEvents(id) ==
  {Event("admin-broadcast-received", "admin-room", "message", id),
   Event("admin-submission-received", "all", "message", id)}

PostBroadcast(caller, fault) ==
  /\ IF ~requireAdmin(caller)
       THEN /\ resp' = Response("PostBroadcast", caller, 0, 403, NoBody)
            /\ UNCHANGED <<messages, events>>
       ELSE IF fault = "invalid"
       THEN /\ resp' = Response("PostBroadcast", caller, 0, 400, FieldErrors)
            /\ UNCHANGED <<messages, events>>
       ELSE IF fault = "db"
       THEN /\ resp' = Response("PostBroadcast", caller, 0, 500, NoBody)
            /\ events' = events \cup
                 Emitted(FALSE, BroadcastEvents(Len(messages) + 1))
            /\ UNCHANGED messages
       ELSE LET message == [sender |-> caller, recipient |-> NoUser,
                            conversation |-> "admin-broadcast",
                            senderType |-> "admin",
                            recipientType |-> "all_admins",
                            isVisibleToAllAdmins |-> TRUE,
                            isAutoReply |-> FALSE, isRead |-> <<>>]
                id == Len(messages) + 1
            IN /\ Len(messages) < MaxMessages
               /\ TotalDocs < MaxDocs
               /\ messages' = Append(messages, message)
               /\ events' = events \cup Emitted(TRUE, BroadcastEvents(id))
               /\ resp' = Response("PostBroadcast", caller, 0, 201, message)
  /\ MessageFrame

\* GET /messages; userId is the query parameter (NoUser when absent).
GetMessages(caller, userId, fault) ==
  /\ IF fault = "db"
       THEN resp' = Response("GetMessages", caller, 0, 500, NoBody)
       ELSE IF isAdminUser(caller)
       THEN IF userId # NoUser
              THEN resp' = Response("GetMessages", caller, 0, 200,
                                    MessageList(userId, getConversation(userId)))
              ELSE resp' = Response("GetMessages", caller, 0, 200,
                                    MessageList("all", getAllAdminSubmissions))
       ELSE resp' = Response("GetMessages", caller, 0, 200,
                             MessageList(caller, getConversation(caller)))
  /\ UNCHANGED <<messages, events>>
  /\ MessageFrame

\* GET /messages/admin-submissions.
GetAdminSubmissions(caller, fault) ==
  /\ IF ~requireAdmin(caller)
       THEN resp' = Response("GetAdminSubmissions", caller, 0, 403, NoBody)
       ELSE IF fault = "db"
       THEN resp' = Response("GetAdminSubmissions", caller, 0, 500, NoBody)
       ELSE resp' = Response("GetAdminSubmissions", caller, 0, 200,
                             MessageList("all", getAllAdminSubmissions))
  /\ UNCHANGED <<messages, events>>
  /\ MessageFrame

(* ------------------------------ read receipts -------------------------- *)
\* isRead is the list of read receipts of a message, one user id per entry.
\* loadedMessages holds the message documents that callers of the instance
\* method have loaded and not saved yet: the message id, the admin and the
\* isRead list as it was when the document was read.
MaxLoaded == 2

Readers == {"a1", "u1"}

Conversations == NonAdmins \cup {"admin-broadcast"}

ReadFrame ==
  UNCHANGED <<vehicles, services, locations, payments, paystackTx,
              paypalOrders, providerCalls, events, connected, socketService>>

HasRead(isRead, adminId) == \E k \in 1..Len(isRead) : isRead[k] = adminId

\* Message.markAsReadByAdmin (static): one updateMany that pushes a receipt to
\* every message of the conversation that has none of adminId; the filter and
\* the push are applied to each document atomically.
markAllAsReadByAdmin(conversationId, adminId) ==
  [i \in 1..Len(messages) |->
     IF /\ messages[i].conversation = conversationId
        /\ ~HasRead(messages[i].isRead, adminId)
       THEN [messages[i] EXCEPT !.isRead = Append(@, adminId)]
       ELSE messages[i]]

\* PUT /messages/read/:conversationId: the static method with the caller's id,
\* for admins and for users alike.
PutRead(caller, conversationId, fault) ==
  /\ IF fault = "db"
       THEN /\ resp' = Response("PutRead", caller, 0, 500, NoBody)
            /\ UNCHANGED messages
       ELSE /\ messages' = markAllAsReadByAdmin(conversationId, caller)
            /\ resp' = Response("PutRead", caller, 0, 200, NoBody)
  /\ UNCHANGED loadedMessages
  /\ ReadFrame

\* A caller of the instance method reads the message document.
LoadMessage(id, adminId) ==
  /\ id \in 1..Len(messages)
  /\ Cardinality(loadedMessages) < MaxLoaded
  /\ loadedMessages' = loadedMessages \cup
       {[id |-> id, adminId |-> adminId, isRead |-> messages[id].isRead]}
  /\ UNCHANGED <<messages, resp>>
  /\ ReadFrame

\* message.markAsReadByAdmin (instance): when the loaded document has no
\* receipt of adminId one is pushed and the document saved; save() sends the
\* push of the new element to the stored document.
markAsReadByAdmin(doc) ==
  /\ doc \in loadedMessages
  /\ loadedMessages' = loadedMessages \ {doc}
  /\ IF ~HasRead(doc.isRead, doc.adminId)
       THEN messages' = [messages EXCEPT ![doc.id].isRead = Append(@, doc.adminId)]
       ELSE UNCHANGED messages
  /\ UNCHANGED resp
  /\ ReadFrame

(* ------------------------------ payments ------------------------------- *)
MaxOrders == 1

NoRef == 0
PaymentIds == 1..(MaxPayments + 1)
OrderIds == 1..(MaxOrders + 1)

\* paymentSchema: the enum of currency and the enum of paystackStatus.
CurrencyEnum == {"NGN", "USD", "GHS", "ZAR", "KES"}
PaystackStatusEnum ==
  {"pending", "ongoing", "success", "failed", "timeout", "processing",
   "abandoned"}

\* Currencies the body validator of POST /payments/paypal/create-order admits
\* (of USD, EUR and GBP, one inside and one outside the schema's enum).
PaypalCurrencies == {"USD", "EUR"}

\* Transaction statuses Paystack reports, and order statuses PayPal reports.
PaystackStatuses == {"success", "failed", "reversed"}
PaypalStatuses == {"COMPLETED", "VOIDED"}

\* What a provider call can end in besides a status: the request fails
\* (network), the provider answers with an error, or the answer lacks the
\* fields the handler reads.
ProviderFailures == {"network", "error", "malformed"}

PaymentFaults == {"none", "invalid", "unconfigured", "db"}

\* The times at which payments are verified or captured.
PaymentDates == {1}

\* The accounts that pay in the model.
PaymentCallers == NonAdmins

PaymentFrame ==
  UNCHANGED <<vehicles, services, locations, messages, connected,
              socketService, loadedMessages>>

\* The document the initialization handlers build, with the provider's order
\* id stored under the other provider's field.
NewPayment_WrongField(user, method, orderId) ==
  [user |-> user, paymentMethod |-> method, status |-> "pending",
   paystackReference |-> orderId, paystackStatus |-> "none",
   paypalOrderId |-> NoRef, completedAt |-> NoDate]

NewPayment(user, method, orderId) ==
  [user |-> user, paymentMethod |-> method, status |-> "pending",
   paystackReference |-> NoRef, paystackStatus |-> "none",
   paypalOrderId |-> orderId, completedAt |-> NoDate]

\* Schema validation run by payment.save().
PaymentValid(p, currency) ==
  /\ currency \in CurrencyEnum
  /\ p.paystackStatus \in PaystackStatusEnum \cup {"none"}

\* The catch blocks of the Paystack handlers answer with
\* error.message || generic: the text of the error caught when it has one.
\* An error is named by its cause (the provider's message, a network or
\* database error, a schema validation error).
NoText == ""

Caught(error, generic) ==
  [kind |-> "failure", message |-> IF error # NoText THEN error ELSE generic]

\* The events of a payment, emitted whatever the provider reported.
PaymentEvents_Always(success, id) ==
  {Event("payment-notification", "admin-room", "payment", id),
   Event("admin-submission-received", "all", "payment", id)}

\* The events verify and capture emit: none unless the provider reported
\* success.
PaymentEvents(success, id) ==
  IF success
    THEN {Event("payment-notification", "admin-room", "payment", id),
          Event("admin-submission-received", "all", "payment", id)}
    ELSE {}

InitResponse_IdAsReference(reference, payment_id) ==
  [kind |-> "init", reference |-> payment_id, payment_id |-> payment_id]

\* The data of a successful initialization response.
InitResponse(reference, payment_id) ==
  [kind |-> "init", reference |-> reference, payment_id |-> payment_id]

\* POST /payments/paystack/initialize.  saveFails is a failure of the second
\* payment.save(), the one that stores the reference.
PaystackInitialize(caller, outcome, saveFails, fault) ==
  /\ IF fault = "invalid"
       THEN /\ resp' = Response("PaystackInitialize", caller, 0, 400, FieldErrors)
            /\ UNCHANGED <<payments, paystackTx, providerCalls>>
       ELSE IF fault = "unconfigured"
       THEN /\ resp' = Response("PaystackInitialize", caller, 0, 503, NoBody)
            /\ UNCHANGED <<payments, paystackTx, providerCalls>>
       ELSE IF fault = "db"
       THEN /\ resp' = Response("PaystackInitialize", caller, 0, 500,
                                Caught("db", "Error initializing payment"))
            /\ UNCHANGED <<payments, paystackTx, providerCalls>>
       ELSE LET payment == NewPayment(caller, "paystack", NoRef)
                id == Len(payments) + 1
            IN /\ Len(payments) < MaxPayments
               /\ TotalDocs < MaxDocs
               /\ providerCalls' = providerCalls \cup
                    {[provider |-> "paystack", rowFirst |-> TRUE]}
               /\ IF outcome # "ok"
                    THEN /\ payments' = Append(payments, payment)
                         /\ UNCHANGED paystackTx
                         /\ resp' = Response("PaystackInitialize", caller, 0,
                                             500, Caught(outcome, "Error initializing payment"))
                    ELSE /\ paystackTx' = paystackTx \cup {id}
                         /\ IF saveFails
                              THEN /\ payments' = Append(payments, payment)
                                   /\ resp' = Response("PaystackInitialize",
                                        caller, 0, 500, Caught("db", "Error initializing payment"))
                              ELSE /\ payments' = Append(payments,
                                        [payment EXCEPT !.paystackReference = id])
                                   /\ resp' = Response("PaystackInitialize",
                                        caller, 0, 200,
                                        InitResponse(id, id))
  /\ UNCHANGED <<paypalOrders, events>>
  /\ PaymentFrame

\* The verify handler's assignments to the payment found.
PaystackAssign(p, status, now) ==
  [p EXCEPT !.status = IF status = "success" THEN "completed" ELSE "failed",
            !.paystackStatus = status,
            !.completedAt = IF status = "success" THEN now ELSE @]

\* POST /payments/paystack/verify.  The provider reports a transaction
\* status only for a reference it holds a transaction for; the transaction's
\* metadata.payment_id is the id sent at initialization, which is the
\* reference.
PaystackVerify(caller, reference, outcome, now, fault) ==
  /\ outcome \in PaystackStatuses => reference \in paystackTx
  /\ IF fault = "invalid"
       THEN /\ resp' = Response("PaystackVerify", caller, 0, 400, FieldErrors)
            /\ UNCHANGED <<payments, events>>
       ELSE IF fault = "unconfigured"
       THEN /\ resp' = Response("PaystackVerify", caller, 0, 503, NoBody)
            /\ UNCHANGED <<payments, events>>
       ELSE IF outcome \in ProviderFailures
       THEN /\ resp' = Response("PaystackVerify", caller, 0, 500,
                                Caught(outcome, "Error verifying payment"))
            /\ UNCHANGED <<payments, events>>
       ELSE IF fault = "db"
       THEN /\ resp' = Response("PaystackVerify", caller, 0, 500,
                                Caught("db", "Error verifying payment"))
            /\ events' = events \cup
                 Emitted(FALSE, PaymentEvents(outcome = "success", reference))
            /\ UNCHANGED payments
       ELSE IF reference \notin 1..Len(payments)
       THEN /\ resp' = Response("PaystackVerify", caller, 0, 404, NoBody)
            /\ UNCHANGED <<payments, events>>
       ELSE LET payment == PaystackAssign(payments[reference], outcome, now)
            IN IF ~PaymentValid(payment, "NGN")
                 THEN /\ resp' = Response("PaystackVerify", caller, 0,
                                          500, Caught("validation", "Error verifying payment"))
                      /\ events' = events \cup
                           Emitted(FALSE,
                                   PaymentEvents(outcome = "success", reference))
                      /\ UNCHANGED payments
                 ELSE /\ payments' = [payments EXCEPT ![reference] = payment]
                      /\ events' = events \cup
                           Emitted(TRUE,
                                   PaymentEvents(outcome = "success", reference))
                      /\ resp' = Response("PaystackVerify", caller, 0,
                                   200, [kind |-> "verify",
                                         payment_status |-> outcome,
                                         payment_id |-> reference])
  /\ UNCHANGED <<paystackTx, paypalOrders, providerCalls>>
  /\ PaymentFrame

\* POST /payments/paypal/create-order.
PaypalCreateOrder(caller, currency, outcome, fault) ==
  /\ IF fault = "invalid"
       THEN /\ resp' = Response("PaypalCreateOrder", caller, 0, 400, FieldErrors)
            /\ UNCHANGED <<payments, paypalOrders, providerCalls>>
       ELSE IF fault = "unconfigured"
       THEN /\ resp' = Response("PaypalCreateOrder", caller, 0, 503, NoBody)
            /\ UNCHANGED <<payments, paypalOrders, providerCalls>>
       ELSE
         /\ providerCalls' = providerCalls \cup
              {[provider |-> "paypal", rowFirst |-> FALSE]}
         /\ IF outcome \in {"network", "malformed"}
              THEN /\ resp' = Response("PaypalCreateOrder", caller, 0, 500, NoBody)
                   /\ UNCHANGED <<payments, paypalOrders>>
              ELSE LET orderId == IF outcome = "ok"
                                    THEN Cardinality(paypalOrders) + 1
                                    ELSE NoRef
                       payment == NewPayment(caller, "paypal", orderId)
                       id == Len(payments) + 1
                   IN /\ outcome = "ok" => Cardinality(paypalOrders) < MaxOrders
                      /\ paypalOrders' = IF outcome = "ok"
                                           THEN paypalOrders \cup {orderId}
                                           ELSE paypalOrders
                      /\ IF fault = "db" \/ ~PaymentValid(payment, currency)
                           THEN /\ resp' = Response("PaypalCreateOrder", caller,
                                                    0, 500, NoBody)
                                /\ UNCHANGED payments
                           ELSE /\ Len(payments) < MaxPayments
                                /\ TotalDocs < MaxDocs
                                /\ payments' = Append(payments, payment)
                                /\ resp' =
                                     IF outcome = "ok"
                                       THEN Response("PaypalCreateOrder", caller,
                                              0, 200,
                                              InitResponse(orderId, id))
                                       ELSE Response("PaypalCreateOrder", caller,
                                              0, 500, NoBody)
  /\ UNCHANGED <<paystackTx, events>>
  /\ PaymentFrame

\* Whether capture.purchase_units[0] can be read: an error answer of the
\* provider carries no purchase_units.
CaptureReadable_Lenient(outcome) == TRUE

CaptureReadable(outcome) == outcome \in PaypalStatuses

PaypalAssign(p, status, now) ==
  [p EXCEPT !.status = IF status = "COMPLETED" THEN "completed" ELSE "failed",
            !.completedAt = IF status = "COMPLETED" THEN now ELSE @]

\* The position of the payment Payment.findOne({paypalOrderId}) returns, 0 when
\* there is none.
FindByOrderId(order_id) ==
  IF \E i \in 1..Len(payments) : payments[i].paypalOrderId = order_id
    THEN CHOOSE i \in 1..Len(payments) :
           /\ payments[i].paypalOrderId = order_id
           /\ \A j \in 1..(i - 1) : payments[j].paypalOrderId # order_id
    ELSE 0

\* POST /payments/paypal/capture.  The provider reports an order status only
\* for an order it issued.
PaypalCapture(caller, order_id, outcome, now, fault) ==
  /\ outcome \in PaypalStatuses => order_id \in paypalOrders
  /\ IF fault = "invalid"
       THEN /\ resp' = Response("PaypalCapture", caller, 0, 400, FieldErrors)
            /\ UNCHANGED <<payments, events>>
       ELSE IF fault = "unconfigured"
       THEN /\ resp' = Response("PaypalCapture", caller, 0, 503, NoBody)
            /\ UNCHANGED <<payments, events>>
       ELSE IF outcome \in {"network", "malformed"}
       THEN /\ resp' = Response("PaypalCapture", caller, 0, 500, NoBody)
            /\ UNCHANGED <<payments, events>>
       ELSE IF fault = "db"
       THEN /\ resp' = Response("PaypalCapture", caller, 0, 500, NoBody)
            /\ events' = events \cup
                 Emitted(FALSE, PaymentEvents(outcome = "COMPLETED",
                                              FindByOrderId(order_id)))
            /\ UNCHANGED payments
       ELSE IF FindByOrderId(order_id) = 0
       THEN /\ resp' = Response("PaypalCapture", caller, 0, 404, NoBody)
            /\ UNCHANGED <<payments, events>>
       ELSE IF ~CaptureReadable(outcome)
       THEN /\ resp' = Response("PaypalCapture", caller, 0, 500, NoBody)
            /\ UNCHANGED <<payments, events>>
       ELSE LET id == FindByOrderId(order_id)
                payment == PaypalAssign(payments[id], outcome, now)
            IN /\ payments' = [payments EXCEPT ![id] = payment]
               /\ events' = events \cup
                    Emitted(TRUE, PaymentEvents(outcome = "COMPLETED", id))
               /\ resp' = Response("PaypalCapture", caller, 0, 200,
                            [kind |-> "capture", capture_status |-> outcome,
                             payment_id |-> id])
  /\ UNCHANGED <<paystackTx, paypalOrders, providerCalls>>
  /\ PaymentFrame

\* GET /payments/admin/all: every payment, for admins only.
GetAllPayments(caller, fault) ==
  /\ IF ~isAdminUser(caller)
       THEN resp' = Response("GetAllPayments", caller, 0, 403, NoBody)
       ELSE IF fault = "db"
       THEN resp' = Response("GetAllPayments", caller, 0, 500, NoBody)
       ELSE resp' = Response("GetAllPayments", caller, 0, 200,
                             [kind |-> "payments", ids |-> 1..Len(payments)])
  /\ UNCHANGED <<payments, events, paystackTx, paypalOrders, providerCalls>>
  /\ PaymentFrame

(* ------------------------------ refunds -------------------------------- *)
\* Payment.processRefund is a method of the payment document; here the
\* documents carry, beside the fields of NewPayment, the amount paid and the
\* refund fields. NoAmount stands for a refundAmount that is 0 or not given.
MaxAmount == 2

NoAmount == 0

\* paymentSchema: the enum of status.
PaymentStatusEnum == {"pending", "completed", "failed", "cancelled", "refunded"}

\* The amounts asked for in a refund: negative, none, partial, full, too much.
RefundAmounts == (0 - 1)..(MaxAmount + 1)

\* The stored payments a refund is asked for: not refunded yet, of any amount
\* the schema accepts (min: 0).
RefundablePayments ==
  {[user |-> u, paymentMethod |-> "paystack", status |-> st,
    paystackReference |-> NoRef, paystackStatus |-> "none",
    paypalOrderId |-> NoRef,
    completedAt |-> IF st = "completed" THEN 1 ELSE NoDate,
    amount |-> a, refundAmount |-> NoAmount, refundedAt |-> NoDate] :
     u \in NonAdmins, st \in PaymentStatusEnum \ {"refunded"}, a \in 0..MaxAmount}

RefundThrows_AnyStatus(p, refundAmount) == refundAmount > p.amount

\* The two checks of processRefund that throw before anything is assigned.
RefundThrows(p, refundAmount) ==
  \/ p.status # "completed"
  \/ refundAmount > p.amount

\* The assignments of processRefund: refundAmount || this.amount.
RefundAssign(p, refundAmount, now) ==
  [p EXCEPT !.status = "refunded",
            !.refundAmount = IF refundAmount # NoAmount THEN refundAmount
                             ELSE p.amount,
            !.refundedAt = now]

\* Schema validation run by save(): refundAmount has min: 0.
RefundValid(p) == p.refundAmount >= 0

\* payment.processRefund(refundAmount, reason) on stored payment id: resp
\* records whether the promise resolved or an error was thrown.
processRefund(id, refundAmount, now) ==
  /\ id \in 1..Len(payments)
  /\ LET payment == RefundAssign(payments[id], refundAmount, now)
     IN IF RefundThrows(payments[id], refundAmount) \/ ~RefundValid(payment)
          THEN /\ resp' = Response("processRefund", NoUser, id, 0,
                                   [kind |-> "thrown"])
               /\ UNCHANGED payments
          ELSE /\ payments' = [payments EXCEPT ![id] = payment]
               /\ resp' = Response("processRefund", NoUser, id, 0,
                                   [kind |-> "resolved"])
  /\ UNCHANGED <<paystackTx, paypalOrders, providerCalls, events>>
  /\ PaymentFrame

(* ============================== claims ================================= *)
\* The last request was op by a non-admin on an existing document of coll
\* that another user owned when the request was served.
ForeignRequest(ops, coll, ownerField) ==
  /\ resp'.op \in ops
  /\ resp'.caller \in NonAdmins
  /\ resp'.id \in 1..Len(coll)
  /\ coll[resp'.id][ownerField] # resp'.caller

\* C1 (as stated): for every non-admin caller and every vehicle, service or
\* location owned by a different user, GET /:id, PUT /:id and DELETE /:id
\* respond 403, never return the resource body and leave the resource
\* unchanged (read for requests that pass validation and meet no server error).
C1_ForeignResourceAlways403 ==
  [][/\ ForeignRequest({"GetVehicle", "PutVehicle", "DeleteVehicle"},
                       vehicles, "owner") =>
          /\ resp'.status \in {403, 400, 500}
          /\ resp'.body \in {NoBody, FieldErrors}
          /\ vehicles' = vehicles
     /\ ForeignRequest({"GetService"}, services, "user") =>
          /\ resp'.status \in {403, 400, 500}
          /\ resp'.body \in {NoBody, FieldErrors}
          /\ services' = services
     /\ ForeignRequest({"PutLocation", "DeleteLocation"}, locations, "user") =>
          /\ resp'.status \in {403, 400, 500}
          /\ resp'.body \in {NoBody, FieldErrors}
          /\ locations' = locations
    ]_vars

\* C1 (amended): for every non-admin caller and every vehicle, service or
\* location owned by a different user, GET /:id, PUT /:id and DELETE /:id never
\* return the resource body and leave the resource unchanged; the response is
\* 403, except that GET and PUT on a soft-deleted vehicle respond 404 (and
\* that a body failing validation gets 400 and a failed database call 500).
C1_ForeignResourceRefused ==
  [][/\ ForeignRequest({"GetVehicle", "PutVehicle"}, vehicles, "owner") =>
          /\ resp'.status \in
               {IF vehicles[resp'.id].isActive THEN 403 ELSE 404, 400, 500}
          /\ resp'.body \in {NoBody, FieldErrors}
          /\ vehicles' = vehicles
     /\ ForeignRequest({"DeleteVehicle"}, vehicles, "owner") =>
          /\ resp'.status \in {403, 500}
          /\ resp'.body \in {NoBody, FieldErrors}
          /\ vehicles' = vehicles
     /\ ForeignRequest({"GetService"}, services, "user") =>
          /\ resp'.status \in {403, 500}
          /\ resp'.body \in {NoBody, FieldErrors}
          /\ services' = services
     /\ ForeignRequest({"PutLocation", "DeleteLocation"}, locations, "user") =>
          /\ resp'.status \in {403, 400, 500}
          /\ resp'.body \in {NoBody, FieldErrors}
          /\ locations' = locations
    ]_vars

\* C1 witness: a non-admin's DELETE of another user's active vehicle was
\* answered 403 and the vehicle is still active.
C1_Witness ==
  /\ resp.op = "DeleteVehicle" /\ resp.status = 403
  /\ resp.caller \in NonAdmins
  /\ resp.id \in 1..Len(vehicles)
  /\ vehicles[resp.id].owner # resp.caller
  /\ vehicles[resp.id].isActive

\* C2: after any sequence of operations, every message sent through
\* POST /messages by a non-admin is in the result of the admins' all-submissions
\* query (the one query every admin account runs), whether or not an admin
\* session was attached to the relay when the message was sent.
C2_UserMessagesReachAdmins ==
  /\ \A i \in 1..Len(messages) :
       messages[i].sender \in NonAdmins => i \in getAllAdminSubmissions
  /\ (/\ resp.op \in {"GetAdminSubmissions", "GetMessages"}
      /\ resp.caller \in Admins /\ resp.status = 200
      /\ resp.body.query = "all") =>
       \A i \in 1..Len(messages) :
         messages[i].sender \in NonAdmins => i \in resp.body.ids

\* C2 witness: an admin's all-submissions query returned a user's message
\* that was sent while no admin session was attached to the admin room.
C2_Witness ==
  /\ resp.op = "GetAdminSubmissions" /\ resp.caller \in Admins
  /\ resp.status = 200
  /\ \E i \in resp.body.ids :
       /\ messages[i].sender \in NonAdmins
       /\ \E e \in events :
            /\ e.name = "message-received" /\ e.doc = i
            /\ e.room = "admin-room" /\ e.rcpts = {}

\* C3: in every reachable state at most one location per (user, type) pair has
\* isPrimary = true (saving a primary location clears the flag on the others).
C3_OnePrimaryPerUserAndType ==
  \A i, j \in 1..Len(locations) :
    (/\ i # j
     /\ locations[i].user = locations[j].user
     /\ locations[i].type = locations[j].type
     /\ locations[i].isPrimary) => ~locations[j].isPrimary

\* C4: every successful PUT /services/:id/status to completed leaves a
\* non-null completedAt in the persisted and in the returned service, and a
\* status update to any other value leaves completedAt as it was.
C4_CompletedAtOnlyOnCompleted ==
  [][resp'.op = "PutServiceStatus" =>
       /\ \A id \in 1..Len(services) :
            services'[id].completedAt # services[id].completedAt =>
              /\ services'[id].status = "completed"
              /\ services'[id].completedAt # NoDate
       /\ (resp'.status = 200 /\ resp'.body.status = "completed") =>
            /\ resp'.body.completedAt # NoDate
            /\ services'[resp'.id] = resp'.body
    ]_vars

\* C4 witness: an admin's status update to completed succeeded, and the
\* service had gone through another status update before.
C4_Witness ==
  /\ resp.op = "PutServiceStatus" /\ resp.status = 200
  /\ resp.body.status = "completed"
  /\ services[resp.id].completedAt = 2

(* ------------------------------ initial state -------------------------- *)
\* The correlation field of a payment that goes with its paymentMethod.
Correlation(p) ==
  IF p.paymentMethod = "paystack" THEN p.paystackReference
  ELSE IF p.paymentMethod = "paypal" THEN p.paypalOrderId
  ELSE NoRef

\* C5 (as stated): in every reachable state every persisted Payment has exactly
\* one provider's correlation field populated, the one of its paymentMethod:
\* paystackReference for paystack, paypalOrderId for paypal, neither for manual.
C5_ExactlyOneCorrelationField ==
  \A i \in 1..Len(payments) :
    /\ payments[i].paymentMethod = "paystack" =>
         (payments[i].paystackReference # NoRef /\ payments[i].paypalOrderId = NoRef)
    /\ payments[i].paymentMethod = "paypal" =>
         (payments[i].paypalOrderId # NoRef /\ payments[i].paystackReference = NoRef)
    /\ payments[i].paymentMethod = "manual" =>
         (payments[i].paypalOrderId = NoRef /\ payments[i].paystackReference = NoRef)

\* C5 (amended): every persisted Payment has at most one provider's
\* correlation field populated, and a populated field is the one of its
\* paymentMethod; a paystack row carries its reference unless it is pending
\* or the save of the reference failed, and a row may carry none.
C5_CorrelationFieldMatchesMethod ==
  \A i \in 1..Len(payments) :
    /\ payments[i].paystackReference # NoRef =>
         (payments[i].paymentMethod = "paystack" /\ payments[i].paypalOrderId = NoRef)
    /\ payments[i].paypalOrderId # NoRef =>
         (payments[i].paymentMethod = "paypal" /\ payments[i].paystackReference = NoRef)
    /\ payments[i].paystackReference # NoRef =>
         (payments[i].paystackReference = i /\ i \in paystackTx)
    /\ payments[i].paypalOrderId # NoRef => payments[i].paypalOrderId \in paypalOrders

\* C5 witness: a paystack row carrying its reference, a paypal row carrying
\* its order id.
C5_Witness ==
  /\ \E i \in 1..Len(payments) :
       payments[i].paymentMethod = "paystack" /\ payments[i].paystackReference # NoRef
  /\ \E i \in 1..Len(payments) :
       payments[i].paymentMethod = "paypal" /\ payments[i].paypalOrderId # NoRef

\* C6: once a Payment is completed, a later paystack/verify or paypal/capture
\* in which the provider reports a non-success status does not move its status
\* away from completed.
C6_CompletedNotReverted ==
  [][resp'.op \in {"PaystackVerify", "PaypalCapture"} =>
       \A i \in 1..Len(payments) :
         payments[i].status = "completed" => payments'[i].status = "completed"]_vars

\* C7: when paystack/verify or paypal/capture gets a status from the provider
\* for a payment it finds, the payment's status becomes completed if the status
\* is the provider's success status and failed for any other status, and
\* completedAt is written only in the success case.
C7_StatusFollowsProvider ==
  [][/\ resp'.op = "PaystackVerify" =>
          \A c \in PaymentCallers, r \in PaymentIds, o \in PaystackStatuses,
             now \in PaymentDates :
            (PaystackVerify(c, r, o, now, "none") /\ r \in 1..Len(payments)) =>
              /\ payments'[r].status =
                   (IF o = "success" THEN "completed" ELSE "failed")
              /\ o # "success" =>
                   payments'[r].completedAt = payments[r].completedAt
     /\ resp'.op = "PaypalCapture" =>
          \A c \in PaymentCallers, r \in OrderIds, o \in PaypalStatuses,
             now \in PaymentDates :
            (PaypalCapture(c, r, o, now, "none") /\ FindByOrderId(r) # 0) =>
              /\ payments'[FindByOrderId(r)].status =
                   (IF o = "COMPLETED" THEN "completed" ELSE "failed")
              /\ o # "COMPLETED" =>
                   payments'[FindByOrderId(r)].completedAt =
                     payments[FindByOrderId(r)].completedAt]_vars

\* C8: when the provider's verify or capture call fails (the request fails,
\* the provider answers with an error, or the answer lacks the fields read),
\* the handler responds with an error and no persisted Payment changes: status
\* and completedAt stay as they were.
C8_ProviderFailureLeavesPayment ==
  [][/\ resp'.op = "PaystackVerify" =>
          \A c \in PaymentCallers, r \in PaymentIds, o \in ProviderFailures,
             now \in PaymentDates :
            PaystackVerify(c, r, o, now, "none") =>
              (resp'.status >= 400 /\ payments' = payments)
     /\ resp'.op = "PaypalCapture" =>
          \A c \in PaymentCallers, r \in OrderIds, o \in ProviderFailures,
             now \in PaymentDates :
            PaypalCapture(c, r, o, now, "none") =>
              (resp'.status >= 400 /\ payments' = payments)]_vars

\* C8 witness: a capture was refused with a server error while the payment of
\* an issued order is still pending with no completion time.
C8_Witness ==
  /\ resp.op = "PaypalCapture" /\ resp.status = 500
  /\ \E i \in 1..Len(payments) :
       /\ payments[i].paypalOrderId \in paypalOrders
       /\ payments[i].status = "pending" /\ payments[i].completedAt = NoDate

\* What every initialization leaves, whatever the order of its steps: the
\* rows it adds are pending and owned by the caller, the older rows are
\* untouched, and a success response names a row whose correlation field
\* equals the reference returned.
InitializationOutcome ==
  resp'.op \in {"PaystackInitialize", "PaypalCreateOrder"} =>
    /\ Len(payments') >= Len(payments)
    /\ \A i \in 1..Len(payments) : payments'[i] = payments[i]
    /\ \A i \in (Len(payments) + 1)..Len(payments') :
         payments'[i].status = "pending" /\ payments'[i].user = resp'.caller
    /\ resp'.status = 200 =>
         /\ Len(payments') = Len(payments) + 1
         /\ resp'.body.payment_id = Len(payments')
         /\ Correlation(payments'[resp'.body.payment_id]) = resp'.body.reference
         /\ resp'.body.reference # NoRef

EventDocWritten(e) ==
  IF e.kind = "message" THEN e.doc \in 1..Len(messages')
  ELSE IF e.kind = "location" THEN e.doc \in 1..Len(locations')
  ELSE e.doc \in 1..Len(payments') /\ payments'[e.doc].status = "completed"

\* C10: in the handlers that publish to the relay (POST /messages,
\* POST /messages/broadcast, paystack/verify, paypal/capture, POST /locations)
\* an event is emitted only after the write of its document succeeded; when
\* the write fails, no event is emitted.
C10_EmitOnlyAfterWrite ==
  [][/\ \A e \in events' \ events :
          /\ resp'.status \in {200, 201}
          /\ EventDocWritten(e)
     /\ resp'.status >= 400 => events' = events]_vars

\* C10 witness: events of a message, of a location and of a completed payment
\* were emitted.
C10_Witness ==
  /\ \E e \in events : e.kind = "message"
  /\ \E e \in events : e.kind = "payment" /\ payments[e.doc].status = "completed"
  /\ resp.op = "PostLocation" /\ resp.status = 500

\* The payment-notification event of payment id on the admin channel.
PaymentNotification(id) ==
  Event("payment-notification", "admin-room", "payment", id)

\* C11 (as stated): paystack/verify and paypal/capture emit a
\* payment-notification to the admin channel if and only if the provider
\* reported success for that call; a failed or errored verification emits none.
C11_NotificationIffSuccess ==
  [][/\ resp'.op = "PaystackVerify" =>
          \A c \in PaymentCallers, r \in PaymentIds,
             o \in PaystackStatuses \cup ProviderFailures,
             now \in PaymentDates, f \in {"none", "db"} :
            PaystackVerify(c, r, o, now, f) =>
              IF o = "success" THEN PaymentNotification(r) \in events'
              ELSE events' = events
     /\ resp'.op = "PaypalCapture" =>
          \A c \in PaymentCallers, r \in OrderIds,
             o \in PaypalStatuses \cup ProviderFailures,
             now \in PaymentDates, f \in {"none", "db"} :
            PaypalCapture(c, r, o, now, f) =>
              IF o = "COMPLETED"
                THEN \E id \in 1..Len(payments) : PaymentNotification(id) \in events'
                ELSE events' = events]_vars

\* C11 (amended): paystack/verify and paypal/capture emit a
\* payment-notification to the admin channel exactly when the provider reported
\* success, the payment was found and its save succeeded (the call is answered
\* 200 with the success status); every other call emits nothing, including a
\* call for which the provider reported success but the payment is missing or
\* its save failed.
C11_NotificationOnSavedSuccess ==
  [][/\ resp'.op = "PaystackVerify" =>
          IF resp'.status = 200 /\ resp'.body.payment_status = "success"
            THEN /\ PaymentNotification(resp'.body.payment_id) \in events'
                 /\ events' \ events \subseteq
                      PaymentEvents(TRUE, resp'.body.payment_id)
            ELSE events' = events
     /\ resp'.op = "PaypalCapture" =>
          IF resp'.status = 200 /\ resp'.body.capture_status = "COMPLETED"
            THEN /\ PaymentNotification(resp'.body.payment_id) \in events'
                 /\ events' \ events \subseteq
                      PaymentEvents(TRUE, resp'.body.payment_id)
            ELSE events' = events]_vars

\* C11 witness: a verify call answered with the provider's success left the
\* payment completed and its payment-notification emitted.
C11_Witness ==
  /\ resp.op = "PaystackVerify" /\ resp.status = 200
  /\ resp.body.payment_status = "success"
  /\ payments[resp.body.payment_id].status = "completed"
  /\ PaymentNotification(resp.body.payment_id) \in events

\* C12: a relay session of a non-admin user receives no event other than
\* message-received for a message addressed to that user: never an event
\* carrying another user's message, payment or location.
C12_UserSessionReceivesOwnMessagesOnly ==
  \A e \in events :
    \A u \in e.rcpts \cap NonAdmins :
      /\ e.name = "message-received"
      /\ e.kind = "message"
      /\ e.room = u
      /\ messages[e.doc].recipient = u

\* C13: for a non-admin caller GET /messages returns only messages of the
\* caller's own conversation: never a message sent by or addressed to another
\* user, nor an admin broadcast.
C13_UserReadsOwnConversationOnly ==
  (/\ resp.op = "GetMessages" /\ resp.caller \in NonAdmins
   /\ resp.status = 200) =>
    \A i \in resp.body.ids :
      /\ messages[i].conversation = resp.caller
      /\ messages[i].sender \in {resp.caller} \cup Admins \cup {NoUser}
      /\ messages[i].recipient \in {resp.caller, NoUser}

\* A write request whose body fails the endpoint's validators, by caller c
\* on the document id (for the endpoints that take one).
InvalidRequest(c, id) ==
  \/ PostVehicle(c, "ABC", "invalid")
  \/ PutVehicle(c, id, [keys |-> {}, licensePlate |-> "ABC", owner |-> "u1",
                        isActive |-> TRUE], "invalid")
  \/ PostService(c, id, "invalid")
  \/ PutServiceStatus(c, id, "pending", FALSE, 1, "invalid")
  \/ PostLocation(c, "home", FALSE, "invalid")
  \/ PutLocation(c, id, [keys |-> {}, type |-> "home", isPrimary |-> FALSE,
                         user |-> "u1", isActive |-> TRUE], "invalid")
  \/ PostMessage(c, NoUser, "invalid")
  \/ PostBroadcast(c, "invalid")
  \/ PaystackInitialize(c, "ok", FALSE, "invalid")
  \/ PaystackVerify(c, id, "error", 1, "invalid")
  \/ PaypalCreateOrder(c, "USD", "network", "invalid")
  \/ PaypalCapture(c, id, "error", 1, "invalid")

\* Neither the database nor a provider nor the relay is touched.
NothingTouched ==
  UNCHANGED <<vehicles, services, locations, messages, payments, paystackTx,
              paypalOrders, providerCalls, events>>

\* C14 (as stated): on every write endpoint a request that fails input
\* validation gets a 400 response with the field-error list, and the persisted
\* documents, the providers and the relay are untouched.
C14_InvalidAlways400 ==
  [][\A c \in Users, id \in VehicleIds :
       InvalidRequest(c, id) =>
         /\ resp'.status = 400
         /\ resp'.body.kind = "errors"
         /\ NothingTouched]_vars

\* C14 (amended): on every write endpoint a request that fails input
\* validation leaves the persisted documents, the providers and the relay
\* untouched; it gets a 400 response with the field-error list, except on the
\* admin-only endpoints PUT /services/:id/status and POST /messages/broadcast,
\* where a non-admin caller is answered 403 before the body is validated.
C14_InvalidRefusedWithoutWrite ==
  [][\A c \in Users, id \in VehicleIds :
       InvalidRequest(c, id) =>
         /\ NothingTouched
         /\ IF resp'.op \in {"PutServiceStatus", "PostBroadcast"}
               /\ ~isAdminUser(c)
              THEN resp'.status = 403 /\ resp'.body = NoBody
              ELSE resp'.status = 400 /\ resp'.body.kind = "errors"]_vars

\* C14 witness: an invalid PUT on an existing vehicle was answered 400 with the
\* error list while a payment row and the vehicle are persisted.
C14_Witness ==
  /\ resp.op = "PutVehicle" /\ resp.status = 400
  /\ resp.body.kind = "errors"
  /\ resp.id \in 1..Len(vehicles)
  /\ Len(payments) = 1

\* The collection an /:id request addresses, and the owner field of its
\* documents.
ResourceOps ==
  {"GetVehicle", "PutVehicle", "DeleteVehicle", "GetService",
   "PutServiceStatus", "PutLocation", "DeleteLocation"}

ResourceColl(op) ==
  IF op \in {"GetVehicle", "PutVehicle", "DeleteVehicle"} THEN vehicles
  ELSE IF op \in {"GetService", "PutServiceStatus"} THEN services
  ELSE locations

ResourceOwner(op, id) ==
  IF op \in {"GetVehicle", "PutVehicle", "DeleteVehicle"}
    THEN vehicles[id].owner
    ELSE ResourceColl(op)[id].user

\* The caller is neither the owner nor an admin.
Stranger(caller, owner) == caller \notin Admins /\ caller # owner

\* C15 (as stated): on every endpoint taking an id the response is 404
\* exactly when no resource with that id exists and 403 exactly when it exists
\* but the caller is neither its owner nor an admin (requests refused for an
\* invalid body or a server error, 400 and 500, aside).
C15_NotFoundVersusForbidden ==
  [][resp'.op \in ResourceOps =>
       LET op == resp'.op
           id == resp'.id
           exists == id \in 1..Len(ResourceColl(op))
       IN /\ resp'.status = 404 => ~exists
          /\ resp'.status = 403 =>
               (exists /\ Stranger(resp'.caller, ResourceOwner(op, id)))
          /\ ~exists => resp'.status \in {404, 400, 500}
          /\ (exists /\ Stranger(resp'.caller, ResourceOwner(op, id))) =>
               resp'.status \in {403, 400, 500}]_vars

\* C15 (amended): with 400 and 500 aside, on GET/PUT/DELETE /:id of vehicles,
\* services and locations the response is 404 exactly when no document with
\* that id exists or, for GET and PUT of a vehicle, the vehicle is
\* soft-deleted, and 403 exactly when the document is found and the caller is
\* neither its owner nor an admin; on PUT /services/:id/status every non-admin
\* caller, owner or not, is answered 403 whether or not the service exists, and
\* an admin is answered 404 exactly when it does not exist.
C15_NotFoundBeforeForbidden ==
  [][resp'.op \in ResourceOps =>
       LET op == resp'.op
           id == resp'.id
           exists == id \in 1..Len(ResourceColl(op))
           found == /\ exists
                    /\ op \in {"GetVehicle", "PutVehicle"} => vehicles[id].isActive
       IN IF op = "PutServiceStatus"
            THEN /\ resp'.status = 403 <=> ~isAdminUser(resp'.caller)
                 /\ resp'.status = 404 => ~exists
                 /\ (isAdminUser(resp'.caller) /\ ~exists) =>
                      resp'.status \in {404, 400, 500}
            ELSE /\ resp'.status = 404 => ~found
                 /\ resp'.status = 403 =>
                      (found /\ Stranger(resp'.caller, ResourceOwner(op, id)))
                 /\ ~found => resp'.status \in {404, 400, 500}
                 /\ (found /\ Stranger(resp'.caller, ResourceOwner(op, id))) =>
                      resp'.status \in {403, 400, 500}]_vars

\* C15 witness: a non-admin's PUT on another user's existing location was
\* answered 403 while a vehicle is stored too.
C15_Witness ==
  /\ resp.op = "PutLocation" /\ resp.status = 403
  /\ resp.id \in 1..Len(locations)
  /\ locations[resp.id].user # resp.caller
  /\ Len(vehicles) = 1

\* The status moves of a service the lifecycle allows.
ServiceMoves ==
  {<<"pending", "approved">>, <<"approved", "in_progress">>,
   <<"in_progress", "completed">>, <<"pending", "cancelled">>,
   <<"approved", "cancelled">>, <<"in_progress", "cancelled">>}

\* C16: the status of a service only moves along pending -> approved ->
\* in_progress -> completed, or to cancelled from a status before completion;
\* a completed or cancelled service keeps its status, no step is skipped or
\* taken backwards, and a new service starts in pending.
C16_ServiceStatusLifecycle ==
  [][/\ \A id \in 1..Len(services) :
          \/ services'[id].status = services[id].status
          \/ <<services[id].status, services'[id].status>> \in ServiceMoves
     /\ \A id \in (Len(services) + 1)..Len(services') :
          services'[id].status = "pending"]_vars

\* C17: PUT /services/:id/status by a caller who is not an admin, the owner
\* of the service included, is answered 403 and leaves every service (its
\* status, completedAt and notes) as it was.
C17_StatusChangeAdminOnly ==
  [][(resp'.op = "PutServiceStatus" /\ resp'.caller \notin Admins)
       => (resp'.status = 403 /\ services' = services)]_vars

\* The owner of an existing service was refused on it.
C17_Witness ==
  /\ resp.op = "PutServiceStatus"
  /\ resp.status = 403
  /\ resp.id \in 1..Len(services)
  /\ services[resp.id].user = resp.caller
  /\ resp.caller \in NonAdmins

\* C18: paystack/verify and paypal/capture called by a non-admin user who is
\* not the owner of a payment leave that payment, its status and every other
\* field, unchanged.
C18_ForeignPaymentUnchanged ==
  [][\A id \in 1..Len(payments) :
       (/\ resp'.op \in {"PaystackVerify", "PaypalCapture"}
        /\ resp'.caller \in NonAdmins
        /\ resp'.caller # payments[id].user)
         => payments'[id] = payments[id]]_vars

\* The sockets of the service that are not closed.
LiveSockets ==
  {s \in 1..Len(socketService.sockets) :
     socketService.sockets[s].state # "closed"}

\* C19: whenever a socket of the service is connected, on the first connect
\* and after every reconnect, it has joined exactly one channel, the admin
\* channel for an admin and the user's private channel otherwise: never both
\* and never none.
C19_ConnectedJoinsOneChannel ==
  \A s \in 1..Len(socketService.sockets) :
    socketService.sockets[s].state = "connected"
      => \E user \in Users :
           /\ socketService.sockets[s].user = user
           /\ socketService.sockets[s].joined =
                {[name |-> IF user \in Admins THEN "join-admin-room"
                           ELSE "join-user-room",
                  id |-> user]}

\* C20: isConnected holds only while the current socket is connected (after
\* its connect event and before its next disconnect, connect_error or manual
\* disconnect); at most one socket of the service is live, the current one;
\* and isConnected implies that the current socket is not null.
C20_OneLiveSocketFlagFollowsIt ==
  /\ socketService.isConnected => socketService.socket # NoSocket
  /\ socketService.isConnected
       => socketService.sockets[socketService.socket].state = "connected"
  /\ Cardinality(LiveSockets) <= 1
  /\ LiveSockets \subseteq {socketService.socket}

\* connect() replaced the first socket, which is closed, and the second
\* socket has connected.
C20_Witness ==
  /\ socketService.isConnected
  /\ socketService.socket = 2
  /\ socketService.sockets[1].state = "closed"
  /\ socketService.sockets[2].state = "connected"

\* The documents the admin list query of a kind returns: GET
\* /messages/admin-submissions, GET /payments/admin/all and GET /locations.
AdminList(kind) ==
  IF kind = "message" THEN getAllAdminSubmissions
  ELSE IF kind = "payment" THEN 1..Len(payments)
  ELSE getAdminLocations

IsPrefix(h, g) ==
  /\ Len(h) <= Len(g)
  /\ \A i \in 1..Len(h) : g[i] = h[i]

\* C22: the maintenanceHistory of a vehicle is append-only: every entry once
\* present remains present and unmodified and the list only grows at its end.
C22_MaintenanceHistoryAppendOnly ==
  [][\A id \in 1..Len(vehicles) :
       IsPrefix(vehicles[id].maintenanceHistory,
                vehicles'[id].maintenanceHistory)]_vars

\* C23: DELETE /vehicles/:id never removes the record and only sets isActive
\* to false; from then on the vehicle is in no GET /vehicles list, GET and PUT
\* on its id are answered 404 for every caller (a malformed body or a failed
\* database read is refused with 400 or 500 before the vehicle is looked up),
\* and no operation sets isActive back to true.
C23_SoftDeleteIsFinal ==
  [][/\ Len(vehicles') >= Len(vehicles)
     /\ \A id \in 1..Len(vehicles) :
          ~vehicles[id].isActive => ~vehicles'[id].isActive
     /\ (resp'.op = "DeleteVehicle" /\ resp'.status = 200) =>
          /\ ~vehicles'[resp'.id].isActive
          /\ vehicles' = [vehicles EXCEPT ![resp'.id].isActive = FALSE]
     /\ (resp'.op = "GetVehicles" /\ resp'.status = 200) =>
          \A id \in resp'.body.ids : vehicles[id].isActive
     /\ (/\ resp'.op \in {"GetVehicle", "PutVehicle"}
         /\ resp'.id \in 1..Len(vehicles)
         /\ ~vehicles[resp'.id].isActive) =>
          /\ resp'.status \in {404, 400, 500}
          /\ resp'.status = 400 => resp'.op = "PutVehicle"
          /\ vehicles' = vehicles]_vars

\* The owner of a soft-deleted vehicle listed their vehicles and the deleted
\* one, still stored, is not among them.
C23_Witness ==
  /\ resp.op = "GetVehicles" /\ resp.status = 200
  /\ \E id \in 1..Len(vehicles) :
       /\ ~vehicles[id].isActive
       /\ vehicles[id].owner = resp.caller
       /\ id \notin resp.body.ids

\* The fixed messages of the catch blocks that answer with a message.
GenericMessages == {"Error initializing payment", "Error verifying payment"}

\* C24: a failure that reaches a handler's catch block is answered 500 with the
\* handler's fixed generic message; the text of the underlying error is never
\* part of the response.
C24_FailureMessageGeneric ==
  resp.status = 500 =>
    \/ resp.body = NoBody
    \/ resp.body.kind = "failure" /\ resp.body.message \in GenericMessages

\* C25: an admin's PUT /services/:id/status that carries notes, on an existing
\* service, stores the new status and exactly one new note and is answered
\* with success and the updated service.
C25_StatusWithNotesSucceeds ==
  [][\A c \in Admins, id \in 1..Len(services), status \in ServiceStatuses,
        now \in Dates :
       PutServiceStatus(c, id, status, TRUE, now, "none") =>
         /\ resp'.status = 200
         /\ resp'.body = services'[id]
         /\ services'[id].status = status
         /\ services'[id].notes = services[id].notes + 1]_vars

\* The auto-replies stored in the conversation of user u.
AutoReplies(u) ==
  {i \in 1..Len(messages) :
     messages[i].conversation = u /\ messages[i].isAutoReply}

\* C26: once a user has sent a message to the admins, the user's conversation
\* holds exactly one auto-reply, and never more than one whatever the number
\* of messages sent; the send itself succeeds whether or not the auto-reply
\* could be created.
C26_OneAutoReplyPerConversation ==
  \A u \in NonAdmins :
    /\ Cardinality(AutoReplies(u)) <= 1
    /\ (\E i \in 1..Len(messages) : messages[i].sender = u)
         => Cardinality(AutoReplies(u)) = 1

\* C27: the isRead list of every message holds at most one entry per user,
\* however often and through whichever markAsReadByAdmin the message or its
\* conversation is marked as read, concurrent calls included.
C27_OneReceiptPerUser ==
  \A i \in 1..Len(messages) :
    \A j, k \in 1..Len(messages[i].isRead) :
      messages[i].isRead[j] = messages[i].isRead[k] => j = k

\* C28: PUT /vehicles/:id and PUT /locations/:id sent by the owner of the
\* resource, whatever the request body, leave the vehicle's owner and the
\* location's user as they were.
C28_OwnerReferenceImmutable ==
  [][/\ (/\ resp'.op = "PutVehicle"
         /\ resp'.id \in 1..Len(vehicles)
         /\ resp'.caller = vehicles[resp'.id].owner)
          => vehicles'[resp'.id].owner = vehicles[resp'.id].owner
     /\ (/\ resp'.op = "PutLocation"
         /\ resp'.id \in 1..Len(locations)
         /\ resp'.caller = locations[resp'.id].user)
          => locations'[resp'.id].user = locations[resp'.id].user]_vars

\* C29 (as stated): processRefund succeeds only on a completed payment and only
\* with refundAmount <= amount; on success the status is refunded with
\* 0 < refundAmount <= amount and refundedAt set; when it throws, the payment
\* is unchanged; a payment becomes refunded only from completed.
C29_RefundOnlyCompletedPositive ==
  [][/\ resp'.op = "processRefund" =>
          IF resp'.body.kind = "resolved"
            THEN /\ payments[resp'.id].status = "completed"
                 /\ payments'[resp'.id].status = "refunded"
                 /\ 0 < payments'[resp'.id].refundAmount
                 /\ payments'[resp'.id].refundAmount <= payments[resp'.id].amount
                 /\ payments'[resp'.id].refundedAt # NoDate
            ELSE payments' = payments
     /\ \A id \in 1..Len(payments) :
          (payments'[id].status = "refunded" /\ payments[id].status # "refunded")
            => payments[id].status = "completed"]_vars

\* C29 (amended): as above with 0 <= refundAmount <= amount on success, the
\* refund being positive whenever the amount paid is: a completed payment of
\* amount 0 is refunded with refundAmount 0.
C29_RefundOnlyCompleted ==
  [][/\ resp'.op = "processRefund" =>
          IF resp'.body.kind = "resolved"
            THEN /\ payments[resp'.id].status = "completed"
                 /\ payments'[resp'.id].status = "refunded"
                 /\ 0 <= payments'[resp'.id].refundAmount
                 /\ payments[resp'.id].amount > 0
                      => 0 < payments'[resp'.id].refundAmount
                 /\ payments'[resp'.id].refundAmount <= payments[resp'.id].amount
                 /\ payments'[resp'.id].refundedAt # NoDate
            ELSE payments' = payments
     /\ \A id \in 1..Len(payments) :
          (payments'[id].status = "refunded" /\ payments[id].status # "refunded")
            => payments[id].status = "completed"]_vars

\* A partial refund succeeded on one payment and a later refund of a payment
\* that is not completed has thrown.
C29_Witness ==
  /\ resp.op = "processRefund" /\ resp.body.kind = "thrown"
  /\ payments[resp.id].status # "completed"
  /\ \E id \in 1..Len(payments) :
       /\ payments[id].status = "refunded"
       /\ payments[id].refundAmount > 0
       /\ payments[id].refundAmount < payments[id].amount

\* Some active vehicle holds the plate.
ActiveHolder(plate) ==
  \E j \in 1..Len(vehicles) :
    vehicles[j].isActive /\ vehicles[j].licensePlate = plate

\* C30: no two active vehicles share a license plate (compared upper-cased);
\* POST /vehicles with the plate of an active vehicle is answered 400 and
\* writes nothing, with any other plate, one whose only previous holder was
\* soft-deleted included, the vehicle is registered; PUT /vehicles/:id never
\* produces a duplicate.
C30_ActivePlatesUnique ==
  [][/\ \A i, j \in 1..Len(vehicles') :
          (/\ i # j
           /\ vehicles'[i].isActive /\ vehicles'[j].isActive)
            => vehicles'[i].licensePlate # vehicles'[j].licensePlate
     /\ \A c \in Users, plate \in PlateInputs :
          PostVehicle(c, plate, "none") =>
            IF ActiveHolder(toUpperCase(plate))
              THEN resp'.status = 400 /\ vehicles' = vehicles
              ELSE /\ resp'.status = 201
                   /\ vehicles' = Append(vehicles, resp'.body)
                   /\ resp'.body.licensePlate = toUpperCase(plate)]_vars

Init ==
  /\ vehicles = <<>>
  /\ services = <<>>
  /\ locations = <<>>
  /\ messages = <<>>
  /\ payments = <<>>
  /\ paystackTx = {}
  /\ paypalOrders = {}
  /\ providerCalls = {}
  /\ events = {}
  /\ connected = {}
  /\ resp = Response("none", NoUser, 0, 0, NoBody)
  /\ socketService = NewSocketService
  /\ loadedMessages = {}

(* ------------------------------ next-state relations ------------------- *)
\* An input that the handler does not read on the path taken is fixed, so that
\* one request is one transition.
VehicleNext ==
  \/ \E c \in Users, p \in PlateInputs, fault \in Faults :
       /\ fault # "none" => p = "ABC"
       /\ PostVehicle(c, p, fault)
  \/ \E c \in Users, id \in VehicleIds, fault \in {"none", "db"} :
       GetVehicle(c, id, fault)
  \/ \E c \in Users, id \in VehicleIds, b \in VehiclePutBodies, fault \in Faults :
       /\ fault # "none" => b.keys = {}
       /\ PutVehicle(c, id, b, fault)
  \/ \E c \in Users, id \in VehicleIds, fault \in {"none", "db"} :
       DeleteVehicle(c, id, fault)

ServiceReadNext ==
  \/ \E c \in Users, v \in VehicleIds, fault \in Faults : PostService(c, v, fault)
  \/ \E c \in Users, id \in ServiceIds, fault \in {"none", "db"} :
       GetService(c, id, fault)

ServiceNext ==
  \/ ServiceReadNext
  \/ \E c \in Users, id \in ServiceIds, st \in ServiceStatuses,
        notes \in BOOLEAN, now \in Dates, fault \in Faults :
       /\ (fault # "none" \/ ~isAdminUser(c)) =>
            (st = "pending" /\ ~notes /\ now = 1)
       /\ st # "completed" => now = 1
       /\ PutServiceStatus(c, id, st, notes, now, fault)

LocationNext ==
  \/ \E c \in Users, t \in LocTypes, p \in BOOLEAN, fault \in Faults :
       /\ fault # "none" => (t = "home" /\ ~p)
       /\ PostLocation(c, t, p, fault)
  \/ \E c \in Users, id \in LocationIds, b \in LocationPutBodies, fault \in Faults :
       /\ fault # "none" => b.keys = {}
       /\ PutLocation(c, id, b, fault)
  \/ \E c \in Users, id \in LocationIds, fault \in {"none", "db"} :
       DeleteLocation(c, id, fault)

MessageNext ==
  \/ \E c \in Users, r \in Users \cup {NoUser}, fault \in Faults :
       /\ (fault # "none" \/ ~isAdminUser(c)) => r = NoUser
       /\ PostMessage(c, r, fault)
  \/ \E c \in Users, fault \in Faults : PostBroadcast(c, fault)
  \/ \E c \in Users, u \in Users \cup {NoUser}, fault \in {"none", "db"} :
       /\ (fault # "none" \/ ~isAdminUser(c)) => u = NoUser
       /\ GetMessages(c, u, fault)
  \/ \E c \in Users, fault \in {"none", "db"} : GetAdminSubmissions(c, fault)

\* Requests the handlers refuse before reading them (invalid body, provider
\* not configured) are drawn once, with the first caller and the first id.
PaymentNext ==
  \/ \E c \in PaymentCallers, outcome \in {"ok", "error", "network"},
        saveFails \in BOOLEAN, fault \in PaymentFaults :
       /\ fault \in {"invalid", "unconfigured"} => c = "u1"
       /\ fault # "none" => outcome = "ok"
       /\ (fault # "none" \/ outcome # "ok") => ~saveFails
       /\ PaystackInitialize(c, outcome, saveFails, fault)
  \/ \E c \in PaymentCallers, reference \in PaymentIds,
        outcome \in PaystackStatuses \cup ProviderFailures, now \in PaymentDates,
        fault \in PaymentFaults :
       /\ fault \in {"invalid", "unconfigured"} =>
            (c = "u1" /\ reference = 1 /\ outcome = "error")
       /\ fault = "db" => outcome = "success"
       /\ PaystackVerify(c, reference, outcome, now, fault)
  \/ \E c \in PaymentCallers, currency \in PaypalCurrencies,
        outcome \in {"ok", "error", "network", "malformed"},
        fault \in PaymentFaults :
       /\ fault \in {"invalid", "unconfigured"} =>
            (c = "u1" /\ outcome = "network" /\ currency = "USD")
       /\ outcome \in {"network", "malformed"} =>
            (currency = "USD" /\ fault # "db")
       /\ PaypalCreateOrder(c, currency, outcome, fault)
  \/ \E c \in PaymentCallers, order_id \in OrderIds,
        outcome \in PaypalStatuses \cup ProviderFailures, now \in PaymentDates,
        fault \in PaymentFaults :
       /\ fault \in {"invalid", "unconfigured"} =>
            (c = "u1" /\ order_id = 1 /\ outcome = "error")
       /\ fault = "db" => outcome = "COMPLETED"
       /\ PaypalCapture(c, order_id, outcome, now, fault)

RelayNext ==
  \/ \E u \in Sessions : connect(u)
  \/ \E u \in Sessions : disconnect(u)

SocketNext ==
  \/ \E user \in SocketUsers : SocketService_connect(user)
  \/ SocketService_disconnect
  \/ \E s \in 1..Len(socketService.sockets) : onConnect(s)
  \/ \E s \in 1..Len(socketService.sockets), serverClosed \in BOOLEAN :
       onDisconnect(s, serverClosed)
  \/ \E s \in 1..Len(socketService.sockets) : onConnectError(s)
  \/ \E s \in 1..Len(socketService.sockets) : reconnect(s)

SpecSocket == Init /\ [][SocketNext]_vars

\* Users' messages and the read receipts added through the route and through
\* the instance method.
ReadNext ==
  \/ \E c \in NonAdmins : PostMessage(c, NoUser, "none")
  \/ \E c \in Readers, conversationId \in Conversations, fault \in {"none", "db"} :
       PutRead(c, conversationId, fault)
  \/ \E id \in 1..MaxMessages, adminId \in Readers : LoadMessage(id, adminId)
  \/ \E doc \in loadedMessages : markAsReadByAdmin(doc)

SpecRead == Init /\ [][ReadNext]_vars

\* Two stored payments of any status and amount, and the refunds asked for.
InitRefund ==
  /\ vehicles = <<>>
  /\ services = <<>>
  /\ locations = <<>>
  /\ messages = <<>>
  /\ payments \in [1..2 -> RefundablePayments]
  /\ payments[1].user = "u1"
  /\ paystackTx = {}
  /\ paypalOrders = {}
  /\ providerCalls = {}
  /\ events = {}
  /\ connected = {}
  /\ resp = Response("none", NoUser, 0, 0, NoBody)
  /\ socketService = NewSocketService
  /\ loadedMessages = {}

RefundNext ==
  \E id \in 1..2, refundAmount \in RefundAmounts, now \in Dates :
    processRefund(id, refundAmount, now)

SpecRefund == InitRefund /\ [][RefundNext]_vars

\* One registered vehicle: the state after u1's POST /vehicles.
InitServices ==
  /\ vehicles = <<[owner |-> "u1", isActive |-> TRUE, licensePlate |-> "ABC",
                   mileage |-> 0, maintenanceHistory |-> <<>>,
                   upcomingMaintenance |-> {}]>>
  /\ services = <<>>
  /\ locations = <<>>
  /\ messages = <<>>
  /\ payments = <<>>
  /\ paystackTx = {}
  /\ paypalOrders = {}
  /\ providerCalls = {}
  /\ events = {}
  /\ connected = {}
  /\ resp = Response("none", NoUser, 0, 0, NoBody)
  /\ socketService = NewSocketService
  /\ loadedMessages = {}

Next ==
  \/ VehicleNext
  \/ ServiceNext
  \/ LocationNext
  \/ MessageNext
  \/ PaymentNext
  \/ RelayNext
  \/ SocketNext
  \/ ReadNext

Spec == Init /\ [][Next]_vars
SpecVehicles == Init /\ [][VehicleNext]_vars
SpecServices == InitServices /\ [][ServiceNext]_vars
SpecLocations == Init /\ [][LocationNext]_vars
SpecPayments == Init /\ [][PaymentNext]_vars
SpecMessages == Init /\ [][MessageNext \/ RelayNext]_vars

\* The resources with an owner check: vehicles, services and locations.
\* The owner checks read only the owner and the active flag, so the requests
\* here vary those and keep the other fields fixed.
AccessNext ==
  \/ \E c \in Users, p \in {"ABC", "XYZ"} : PostVehicle(c, p, "none")
  \/ \E c \in Users, id \in VehicleIds, fault \in {"none", "db"} :
       GetVehicle(c, id, fault)
  \/ \E c \in Users, id \in VehicleIds, b \in VehiclePutBodies, fault \in Faults :
       /\ b.keys \subseteq {"owner"}
       /\ fault # "none" => b.keys = {}
       /\ PutVehicle(c, id, b, fault)
  \/ \E c \in Users, id \in VehicleIds, fault \in {"none", "db"} :
       DeleteVehicle(c, id, fault)
  \/ \E c \in Users, v \in VehicleIds : PostService(c, v, "none")
  \/ \E c \in Users, id \in ServiceIds, fault \in {"none", "db"} :
       GetService(c, id, fault)
  \/ \E c \in Users : PostLocation(c, "home", FALSE, "none")
  \/ \E c \in Users, id \in LocationIds, b \in LocationPutBodies, fault \in Faults :
       /\ b.keys \subseteq {"user"}
       /\ fault # "none" => b.keys = {}
       /\ PutLocation(c, id, b, fault)
  \/ \E c \in Users, id \in LocationIds, fault \in {"none", "db"} :
       DeleteLocation(c, id, fault)

SpecAccess == Init /\ [][AccessNext]_vars
\* The handlers that publish to the relay, called by one admin and one user,
\* with the admin's session attaching to and leaving the relay.
Publishers == {"a1", "u1"}

PublishNext ==
  \/ \E c \in Publishers, r \in {NoUser, "u1"}, fault \in {"none", "db"} :
       /\ ~isAdminUser(c) => r = NoUser
       /\ PostMessage(c, r, fault)
  \/ \E c \in Publishers, fault \in {"none", "db"} : PostBroadcast(c, fault)
  \/ \E c \in Publishers \ Admins, fault \in {"none", "db"} :
       PostLocation(c, "home", FALSE, fault)
  \/ \E c \in Publishers \ Admins : PaystackInitialize(c, "ok", FALSE, "none")
  \/ \E c \in Publishers \ Admins, reference \in PaymentIds,
        outcome \in PaystackStatuses, now \in PaymentDates,
        fault \in {"none", "db"} :
       PaystackVerify(c, reference, outcome, now, fault)
  \/ \E c \in Publishers \ Admins : PaypalCreateOrder(c, "USD", "ok", "none")
  \/ \E c \in Publishers \ Admins, order_id \in OrderIds,
        outcome \in PaypalStatuses \cup {"error"}, now \in PaymentDates,
        fault \in {"none", "db"} :
       PaypalCapture(c, order_id, outcome, now, fault)
  \/ \E u \in Admins : connect(u)
  \/ \E u \in Admins : disconnect(u)

SpecPublish == Init /\ [][PublishNext]_vars

\* The publishing handlers, the owner's soft delete of a location and the
\* admin's list queries, with the admin's session attaching and leaving.
ReconcileNext ==
  \/ PublishNext
  \/ \E c \in Publishers \ Admins, id \in LocationIds :
       DeleteLocation(c, id, "none")
  \/ \E c \in Admins, fault \in {"none", "db"} : GetAdminSubmissions(c, fault)
  \/ \E c \in Publishers, fault \in {"none", "db"} : GetLocations(c, fault)
  \/ \E c \in Publishers, fault \in {"none", "db"} : GetAllPayments(c, fault)

SpecReconcile == Init /\ [][ReconcileNext]_vars

\* The operations on a vehicle's maintenance lists, on one registered vehicle.
MaintenanceNext ==
  \/ \E c \in Users, id \in VehicleIds, record \in MaintenanceRecords,
        now \in Dates, fault \in Faults :
       /\ (fault # "none" \/ id # 1) =>
            (record = [serviceType |-> "oil", serviceDate |-> NoDate,
                       mileageAtService |-> 0] /\ now = 1)
       /\ record.serviceDate # NoDate => now = 1
       /\ PostMaintenance(c, id, record, now, fault)
  \/ \E c \in Users, id \in VehicleIds, b \in MaintenancePutBodies :
       PutVehicle(c, id, b, "none")
  \/ \E m \in 1..2 : ScheduleMaintenance(1, m)
  \/ \E m \in 1..2 :
       CompleteScheduledMaintenance(1, m,
         [serviceType |-> "oil", serviceDate |-> 1, mileageAtService |-> 0])

SpecMaintenance == InitServices /\ [][MaintenanceNext]_vars

\* The vehicle endpoints, with the PUT bodies that carry the active flag.
SoftDeleteNext ==
  \/ \E c \in Users, p \in {"ABC", "XYZ"} : PostVehicle(c, p, "none")
  \/ \E c \in Users, fault \in {"none", "db"} : GetVehicles(c, fault)
  \/ \E c \in Users, id \in VehicleIds, fault \in {"none", "db"} :
       GetVehicle(c, id, fault)
  \/ \E c \in Users, id \in VehicleIds, b \in VehiclePutBodies, fault \in Faults :
       /\ b.keys \subseteq {"isActive"}
       /\ fault # "none" => b.keys = {}
       /\ PutVehicle(c, id, b, fault)
  \/ \E c \in Users, id \in VehicleIds, fault \in {"none", "db"} :
       DeleteVehicle(c, id, fault)
  \/ \E c \in Users, id \in VehicleIds :
       PostMaintenance(c, id, [serviceType |-> "oil", serviceDate |-> 1,
                               mileageAtService |-> 0], 1, "none")

SpecSoftDelete == Init /\ [][SoftDeleteNext]_vars

\* Valid requests that create a document of each kind, and the requests that
\* fail validation on every write endpoint.
ValidationNext ==
  \/ \E c \in Users : PostVehicle(c, "XYZ", "none")
  \/ \E c \in Users, v \in VehicleIds : PostService(c, v, "none")
  \/ \E c \in Users : PostLocation(c, "home", TRUE, "none")
  \/ \E c \in NonAdmins : PostMessage(c, NoUser, "none")
  \/ \E c \in PaymentCallers : PaystackInitialize(c, "ok", FALSE, "none")
  \/ \E c \in Users, id \in VehicleIds : InvalidRequest(c, id)

SpecValidation == InitServices /\ [][ValidationNext]_vars

\* The endpoints that take a resource id: those with an ownership check and
\* the admin-only status update.
ResourceNext ==
  \/ AccessNext
  \/ \E c \in Users, id \in ServiceIds, fault \in Faults :
       PutServiceStatus(c, id, "approved", FALSE, 1, fault)

SpecResource == Init /\ [][ResourceNext]_vars

====
